---- MODULE Spec2Model ----
(***************************************************************************)
(* State-machine model of the vulnerability aggregator:                    *)
(*   - the agent report endpoint (agent_api.py) and the agent inventory    *)
(*     write (db.py, upsert_agent_inventory) over SQLite connections;      *)
(*   - the harvest run (processing.py) and its worker processes            *)
(*     (workers.py).                                                       *)
(***************************************************************************)
EXTENDS Integers, Sequences, FiniteSets, TLC

(***************************************************************************)
(* Bounds of the model.                                                    *)
(***************************************************************************)
MaxReports == 2      \* requests received by the report endpoint in a run
MaxClock == 1        \* the wall clock (seconds) runs from 0 to MaxClock
MaxIds == 3          \* ids of a harvest run
MaxWorkers == 2      \* the workers argument of a harvest run
MaxParts == 2        \* part files of a shard set given to the aggregation
MaxRows == 2         \* rows of one part file of such a shard set
MaxPolls == 2        \* polls of the watcher
MaxCount == 3        \* the largest count the probe reports
MaxInserts == 2      \* calls of insert_vulnerabilities in a run of the Store
MaxNews == 2         \* rows of the table of one news scrape
MaxInterval == 2     \* the largest interval, in hours, the watcher is started with
MaxSeq == 10         \* the largest sequence number of an id given to ids.py
MaxWidth == 3        \* the most digits of the sequence text of such an id
MaxSteps == 11       \* the largest steps argument of subtract_steps
MaxTokens == 3       \* tokens of a list given to tokens_similarity
MaxVerLen == 3       \* integers of a tuple given to compare_versions
MaxPart == 1         \* the largest integer of such a tuple
MaxSoft == 2         \* software rows given to match_vulns_for_agent
MaxVulns == 2        \* vulnerabilities rows given to match_vulns_for_agent
MaxItems == 10       \* ids of a list given to _chunkify on its own
MaxChunks == 11      \* the largest n_chunks given to _chunkify on its own
MaxOldRows == 2      \* rows of the vulnerabilities table of an earlier version
MaxInits == 2        \* calls of init_db on one database file

(***************************************************************************)
(* JSON values.  A string is a sequence of one-character tokens; the       *)
(* values that are not strings are one-token sequences whose token is no   *)
(* character.                                                              *)
(***************************************************************************)
None == <<"None">>
JsonNumber == <<"Number">>
JsonArray == <<"Array">>

IsStr(v) == v \notin {None, JsonNumber, JsonArray}

\* Python truth value of a JSON value: None and "" are false.
Truthy(v) == v # None /\ v # <<>>

\* Python `v or d`.
PyOr(v, d) == IF Truthy(v) THEN v ELSE d

RECURSIVE LStrip(_)
LStrip(s) == IF s # <<>> /\ Head(s) = " " THEN LStrip(Tail(s)) ELSE s

RECURSIVE RStrip(_)
RStrip(s) == IF s # <<>> /\ s[Len(s)] = " " THEN RStrip(SubSeq(s, 1, Len(s) - 1)) ELSE s

\* str.strip()
Strip(s) == RStrip(LStrip(s))

(***************************************************************************)
(* The inputs of the report endpoint.                                      *)
(***************************************************************************)
A1 == <<"a", "1">>
A2 == <<"a", "2">>
AgentIds == {A1, A2}

\* One entry of the payload's software list; a non-dict entry has isdict FALSE.
Item(n, v, p) == [isdict |-> TRUE, name |-> n, version |-> v, publisher |-> p]
ItemNotDict == [isdict |-> FALSE, name |-> None, version |-> None, publisher |-> None]

ItemA == Item(<<"a">>, <<"1">>, <<"p">>)
ItemB == Item(<<"b">>, None, None)
ItemPadded == Item(<<" ", "a", " ">>, <<" ", "2">>, <<>>)
ItemBlank == Item(<<" ">>, <<"1">>, <<"p">>)
ItemEmpty == Item(<<>>, JsonNumber, None)
ItemNoName == Item(None, <<"1">>, None)
ItemBadName == Item(JsonNumber, <<"1">>, None)
ItemBadVersion == Item(<<"b">>, JsonNumber, None)

\* The payload's software value: absent, a list, or a truthy value that is no list.
SoftAbsent == [kind |-> "absent", items |-> <<>>]
SoftList(items) == [kind |-> "list", items |-> items]
SoftNumber == [kind |-> "number", items |-> <<>>]

SoftLists ==
    { SoftAbsent,
      SoftList(<<ItemA>>),
      SoftList(<<ItemPadded, ItemBlank, ItemB>>),
      SoftList(<<ItemEmpty, ItemNoName>>),
      SoftList(<<ItemA, ItemNotDict>>),
      SoftList(<<ItemBadVersion>>),
      SoftNumber }

\* The payload's os_info value: absent, a dict, or a truthy value that is no dict.
OsInfo(k, h, t, r, v, a) ==
    [kind |-> k, hostname |-> h, os_type |-> t, os_release |-> r,
     os_version |-> v, architecture |-> a]
OsAbsent == OsInfo("absent", None, None, None, None, None)
OsString == OsInfo("string", None, None, None, None, None)
OsFull == OsInfo("dict", <<"h", "1">>, <<"l">>, <<"r">>, <<"v">>, <<"x">>)
OsPartial == OsInfo("dict", <<"h", "2">>, None, <<>>, None, None)

\* (os_info, ip_address) of a payload.
HostFacts ==
    { <<OsFull, <<"i", "1">>>>,
      <<OsPartial, <<>>>>,
      <<OsAbsent, None>>,
      <<OsString, <<"i", "1">>>>,
      <<OsFull, JsonArray>> }

Payload(aid, os, ip, sw) ==
    [agent_id |-> aid, os_info |-> os, ip_address |-> ip, software |-> sw]

\* The decrypted JSON objects of the model: for agent a1 every host value with
\* one software list and every software list with one host value, for agent a2
\* two reports, and the two empty agent ids.
Payloads ==
    { Payload(A1, hf[1], hf[2], SoftList(<<ItemA>>)) : hf \in HostFacts }
    \cup { Payload(A1, OsPartial, <<>>, sw) : sw \in SoftLists }
    \cup { Payload(A2, OsFull, <<"i", "1">>, SoftList(<<ItemPadded, ItemBlank, ItemB>>)),
           Payload(A2, OsAbsent, None, SoftList(<<ItemB, ItemBadName>>)) }
    \cup { Payload(aid, OsFull, <<"i", "1">>, SoftList(<<ItemA>>)) : aid \in {None, <<>>} }

\* The plaintext of enc_data: no JSON, or JSON of one of the shapes.
Plain(shape, obj) == [shape |-> shape, obj |-> obj]
NoPayload == Payload(None, OsAbsent, None, SoftAbsent)
Plains ==
    { Plain(s, NoPayload) : s \in {"notjson", "null", "array", "scalar"} }
    \cup { Plain("object", p) : p \in Payloads }

(***************************************************************************)
(* The request body.  enc_key carries the AES session key wrapped for a    *)
(* public key; enc_data carries nonce || tag || ciphertext sealed under a  *)
(* session key.  The bytes are abstracted to what decides the outcome.     *)
(***************************************************************************)
SessionKeys == {"k1", "k2"}

EncKey(k, pub, key) == [kind |-> k, pub |-> pub, key |-> key]
GoodKey == EncKey("wrapped", "server", "k1")
EncKeys ==
    { EncKey(k, "server", "k1") : k \in {"absent", "empty", "badb64", "garbage"} }
    \cup { EncKey("wrapped", pub, "k1") : pub \in {"server", "other"} }

EncData(k, key, tagok, plain) == [kind |-> k, key |-> key, tagok |-> tagok, plain |-> plain]
Seal(plain) == EncData("sealed", "k1", TRUE, plain)
GoodPlain == Plain("object", Payload(A1, OsFull, <<"i", "1">>, SoftList(<<ItemA>>)))
EncDatas ==
    { EncData(k, "k1", TRUE, GoodPlain) : k \in {"absent", "empty", "badb64", "short"} }
    \cup { EncData("sealed", "k2", TRUE, GoodPlain), EncData("sealed", "k1", FALSE, GoodPlain) }
    \cup { Seal(pl) : pl \in Plains }

Body(shape, ek, ed) == [shape |-> shape, enc_key |-> ek, enc_data |-> ed]

\* The requests of the model: every body shape, every enc_key with a good and
\* with a short enc_data, every enc_data with a good enc_key.
Requests ==
    { Body(s, GoodKey, Seal(GoodPlain)) : s \in {"notjson", "null", "array", "scalar"} }
    \cup { Body("object", ek, ed) :
              ek \in EncKeys, ed \in {Seal(GoodPlain), EncData("short", "k1", TRUE, GoodPlain)} }
    \cup { Body("object", GoodKey, ed) : ed \in EncDatas }

(***************************************************************************)
(* agent_api.py                                                            *)
(***************************************************************************)
\* Mutant of DecryptPayload: the length of enc_data is not checked.
DecryptNoLengthCheck(ek, ed) ==
    IF ek.kind = "wrapped" /\ ek.pub = "server" /\ ed.kind \in {"short", "sealed"}
       /\ ed.key = ek.key /\ ed.tagok /\ ed.plain.shape # "notjson"
    THEN [ok |-> TRUE, plain |-> ed.plain]
    ELSE [ok |-> FALSE, plain |-> Plain("notjson", NoPayload)]

\* _decrypt_payload: the value json.loads returns, or ok = FALSE for any exception.
DecryptPayload(ek, ed) ==
    LET fail == [ok |-> FALSE, plain |-> Plain("notjson", NoPayload)] IN
    IF ek.kind = "badb64" THEN fail                      \* base64.b64decode(enc_key_b64)
    ELSE IF ed.kind = "badb64" THEN fail                 \* base64.b64decode(enc_data_b64)
    ELSE IF ek.kind # "wrapped" \/ ek.pub # "server" THEN fail   \* priv_key.decrypt
    ELSE IF ed.kind = "short" THEN fail                  \* len(enc_data) < 12 + 16
    ELSE IF ed.key # ek.key \/ ~ed.tagok THEN fail       \* decryptor.finalize()
    ELSE IF ed.plain.shape = "notjson" THEN fail         \* json.loads
    ELSE [ok |-> TRUE, plain |-> ed.plain]

\* The bytes of enc_data: each byte is known by the part of the sealing it
\* was written as and its place in that part, and by whether it was changed
\* on the way.
NonceLen == 12
TagLen == 16
Byte(part, i) == [part |-> part, i |-> i, changed |-> FALSE]
NonceOf(sealing) == [i \in 1..NonceLen |-> Byte("nonce", i)]
TagOf(sealing) == [i \in 1..TagLen |-> Byte("tag", i)]
CiphertextOf(sealing) == [i \in 1..sealing.len |-> Byte("ct", i)]

\* AES-GCM of the plaintext under a session key: the sealing, whose nonce,
\* tag and ciphertext are the only ones the key opens to the plaintext.
Sealing(plain, key, len) == [plain |-> plain, key |-> key, len |-> len]

\* The agent's message: nonce(12) || tag(16) || ciphertext of the sealing.
EncryptForServer(sealing) ==
    [sealing |-> sealing, bytes |-> NonceOf(sealing) \o TagOf(sealing) \o CiphertextOf(sealing)]

\* The message with byte i changed; i = 0 changes nothing.
ChangeByte(msg, i) ==
    IF i = 0 THEN msg
    ELSE [msg EXCEPT !.bytes = [msg.bytes EXCEPT ![i] = [@ EXCEPT !.changed = TRUE]]]

\* Mutant of EncDataOf: the tag is taken from the end of enc_data.
EncDataOfTagLast(msg) ==
    LET enc_data == msg.bytes
        nonce == SubSeq(enc_data, 1, NonceLen)
        ciphertext == SubSeq(enc_data, NonceLen + 1, Len(enc_data) - TagLen)
        tag == SubSeq(enc_data, Len(enc_data) - TagLen + 1, Len(enc_data))
    IN  IF Len(enc_data) < NonceLen + TagLen
        THEN EncData("short", msg.sealing.key, TRUE, msg.sealing.plain)
        ELSE EncData("sealed", msg.sealing.key,
                     /\ nonce = NonceOf(msg.sealing)
                     /\ tag = TagOf(msg.sealing)
                     /\ ciphertext = CiphertextOf(msg.sealing),
                     msg.sealing.plain)

\* Lines 66-79 on the bytes of enc_data: the length check, the three slices,
\* and the tag check of decryptor.finalize(), which passes only for the
\* nonce, tag and ciphertext of one sealing.
EncDataOf(msg) ==
    LET enc_data == msg.bytes
        nonce == SubSeq(enc_data, 1, NonceLen)
        tag == SubSeq(enc_data, NonceLen + 1, NonceLen + TagLen)
        ciphertext == SubSeq(enc_data, NonceLen + TagLen + 1, Len(enc_data))
    IN  IF Len(enc_data) < NonceLen + TagLen
        THEN EncData("short", msg.sealing.key, TRUE, msg.sealing.plain)
        ELSE EncData("sealed", msg.sealing.key,
                     /\ nonce = NonceOf(msg.sealing)
                     /\ tag = TagOf(msg.sealing)
                     /\ ciphertext = CiphertextOf(msg.sealing),
                     msg.sealing.plain)

\* The payloads an agent seals, and the byte that is changed on the way:
\* none, or any byte of the message.
SealedPlains ==
    {GoodPlain, Plain("array", NoPayload),
     Plain("object", Payload(A2, OsAbsent, None, SoftList(<<ItemB, ItemBadName>>)))}
CtLen == 2
SealedMessages ==
    { [plain |-> GoodPlain, key |-> k, changed |-> i] :
          k \in SessionKeys, i \in 0..(NonceLen + TagLen + CtLen) }
    \cup { [plain |-> pl, key |-> "k1", changed |-> 0] : pl \in SealedPlains }

ErrorKinds ==
    { "bad_json", "enc_key_or_enc_data_missing", "private_key_error",
      "decrypt_failed", "agent_id_missing", "db_error" }

\* The arguments agent_report passes to upsert_agent_inventory.
Args(p) ==
    LET os == IF p.os_info.kind = "absent" THEN OsAbsent ELSE p.os_info IN
    [agent_id |-> p.agent_id,
     hostname |-> os.hostname, os_type |-> os.os_type, os_release |-> os.os_release,
     os_version |-> os.os_version, architecture |-> os.architecture,
     ip_address |-> PyOr(p.ip_address, None),
     software_list |-> IF p.software.kind = "absent" THEN SoftList(<<>>) ELSE p.software]
NoArgs == Args(NoPayload)

\* agent_report up to the call of upsert_agent_inventory: the response kind, or
\* "call" with the decrypted payload and the arguments of the call, or "unhandled"
\* for an exception that no handler of agent_report catches.
AgentReportChecks(body, keyLoads) ==
    LET out(k) == [kind |-> k, args |-> NoArgs, payload |-> NoPayload]
        ek == body.enc_key
        ed == body.enc_data
        dec == DecryptPayload(ek, ed)
        p == dec.plain.obj
    IN  IF body.shape = "notjson" THEN out("bad_json")
        ELSE IF body.shape \in {"array", "scalar"} THEN out("unhandled")   \* (raw or {}).get
        ELSE IF body.shape = "null" THEN out("enc_key_or_enc_data_missing")
        ELSE IF ek.kind \in {"absent", "empty"} \/ ed.kind \in {"absent", "empty"}
             THEN out("enc_key_or_enc_data_missing")
        ELSE IF ~keyLoads THEN out("private_key_error")
        ELSE IF ~dec.ok THEN out("decrypt_failed")
        ELSE IF dec.plain.shape # "object" THEN out("unhandled")           \* payload.get
        ELSE IF ~Truthy(p.agent_id) THEN out("agent_id_missing")
        ELSE IF p.os_info.kind = "string" THEN out("db_error")             \* os_info.get
        ELSE [kind |-> "call", args |-> Args(p), payload |-> p]

(***************************************************************************)
(* db.py: the agents and agent_software tables.                            *)
(***************************************************************************)
Threads == {"t1", "t2"}
Free == "free"

\* sqlite3 binds None and str; a list is refused.
Bindable(v) == v # JsonArray

AgentRow(a, first, last) ==
    [agent_id |-> a.agent_id,
     hostname |-> a.hostname, os_type |-> a.os_type, os_release |-> a.os_release,
     os_version |-> a.os_version, architecture |-> a.architecture,
     ip_address |-> a.ip_address, first_seen |-> first, last_seen |-> last]

\* Mutant of UpsertAgent: an UPDATE that inserts no row for a new agent.
UpdateOnly(tbl, a, now) ==
    { IF r.agent_id = a.agent_id THEN AgentRow(a, r.first_seen, now) ELSE r : r \in tbl }

\* Mutant of UpsertAgent: INSERT OR REPLACE, which resets first_seen.
UpsertReplace(tbl, a, now) ==
    { r \in tbl : r.agent_id # a.agent_id } \cup { AgentRow(a, now, now) }

\* INSERT INTO agents ... ON CONFLICT(agent_id) DO UPDATE SET ..., at time now.
UpsertAgent(tbl, a, now) ==
    LET old == { r \in tbl : r.agent_id = a.agent_id } IN
    IF old = {}
    THEN tbl \cup { AgentRow(a, now, now) }
    ELSE (tbl \ old) \cup { AgentRow(a, r.first_seen, now) : r \in old }

\* Mutant of DeleteSoftware: a DELETE without the WHERE clause.
DeleteEveryAgent(tbl, aid) == <<>>

\* Mutant of DeleteSoftware: the old rows stay.
DeleteNothing(tbl, aid) == tbl

\* DELETE FROM agent_software WHERE agent_id = ?
DeleteSoftware(tbl, aid) == SelectSeq(tbl, LAMBDA r : r.agent_id # aid)

\* The rows upsert_agent_inventory builds from software_list; ok = FALSE when
\* an entry raises.
RECURSIVE RowsOf(_, _, _)
RowsOf(aid, items, now) ==
    IF items = <<>> THEN [ok |-> TRUE, rows |-> <<>>]
    ELSE LET item == Head(items)
             rest == RowsOf(aid, Tail(items), now)
             name == PyOr(item.name, <<>>)
             ver == PyOr(item.version, <<>>)
             pub == PyOr(item.publisher, <<>>)
             bad == [ok |-> FALSE, rows |-> <<>>]
         IN  IF ~item.isdict \/ ~IsStr(name) THEN bad
             ELSE IF Strip(name) = <<>> THEN rest
             ELSE IF ~IsStr(ver) \/ ~IsStr(pub) THEN bad
             ELSE IF ~rest.ok THEN bad
             ELSE [ok |-> TRUE,
                   rows |-> << [agent_id |-> aid, name |-> Strip(name),
                                version |-> PyOr(Strip(ver), None),
                                publisher |-> PyOr(Strip(pub), None),
                                first_seen |-> now, last_seen |-> now] >> \o rest.rows]

BuildRows(aid, software_list, now) ==
    IF software_list.kind = "number" THEN [ok |-> FALSE, rows |-> <<>>]
    ELSE RowsOf(aid, software_list.items, now)

\* Mutant of CanWrite: writers do not exclude each other.
CanWriteAlways(lk, t) == TRUE

\* SQLite admits one write transaction at a time: a connection's first write
\* waits while another connection holds the write lock.
CanWrite(lk, t) == lk = Free

Db(ag, sw) == [agents |-> ag, agent_software |-> sw]
NoTx == Db({}, <<>>)

\* conn.commit(): the transaction's tables become the stored ones.
CommitTx(stored, txdb) == txdb

\* Mutant of CloseConnection: the changes made so far are kept.
CloseKeepsChanges(stored, txdb) == txdb

\* conn.close() without commit: the transaction's changes are discarded.
CloseConnection(stored, txdb) == stored

(***************************************************************************)
(* State.                                                                  *)
(***************************************************************************)
(***************************************************************************)
(* processing.py, workers.py, html_parser.py: the harvest run.             *)
(***************************************************************************)

\* fetch_html(url, wait_time, max_retries = 3)
MaxRetries == 3

\* Mutant of LastAttempt: one attempt more before the error is raised.
LastAttemptOneLater(failed) == failed >= MaxRetries

\* fetch_html, the loop over range(max_retries): the attempt after `failed`
\* failed ones is the last one.
LastAttempt(failed) == failed >= MaxRetries - 1

\* The ids of a run of n ids, and the worker slots (one process per chunk).
Ids(n) == [i \in 1..n |-> i]
Slots == 1..MaxWorkers

Max(a, b) == IF a >= b THEN a ELSE b
Min(a, b) == IF a <= b THEN a ELSE b

\* Mutant of Chunkify: the chunk size is rounded down.
ChunkifyFloor(items, n_chunks) ==
    IF items = <<>> THEN <<>>
    ELSE LET n == Min(Max(1, n_chunks), Len(items))
             avg == Len(items) \div n
             cnt == (Len(items) + avg - 1) \div avg
         IN  [k \in 1..cnt |->
                 SubSeq(items, (k - 1) * avg + 1, Min(k * avg, Len(items)))]

\* _chunkify(items, n_chunks)
Chunkify(items, n_chunks) ==
    IF items = <<>> THEN <<>>
    ELSE LET n == Min(Max(1, n_chunks), Len(items))
             avg == (Len(items) + n - 1) \div n
             cnt == (Len(items) + avg - 1) \div avg
         IN  [k \in 1..cnt |->
                 SubSeq(items, (k - 1) * avg + 1, Min(k * avg, Len(items)))]

\* The page address of an id, and a link as _normalize_url reads it.
Url(vid) == [path |-> vid, utm |-> FALSE, fragment |-> FALSE]

\* _normalize_url: the utm_* parameters and the fragment are removed.
NormalizeUrl(u) == [path |-> u.path, utm |-> FALSE, fragment |-> FALSE]

\* The record the parser returns for a page.
Record(vid) == [bdu_id |-> vid, link |-> Url(vid)]

\* Mutant of Exited: join returns while the process still runs.
ExitedOrRunning(state) == state # "none"

\* A process has ended, by returning or by crashing: join returns.
Exited(state) == state \in {"exited", "crashed"}

\* Mutant of CombineParts: only the first part file is read.
CombineFirstPart(parts) ==
    IF \E k \in DOMAIN parts : parts[k] # <<>>
    THEN parts[CHOOSE k \in DOMAIN parts :
                  parts[k] # <<>> /\ \A j \in DOMAIN parts : parts[j] # <<>> => k <= j]
    ELSE <<>>

\* _combine_parts over the sorted part files: their rows, concatenated.
RECURSIVE CombineParts(_)
CombineParts(parts) ==
    IF parts = <<>> THEN <<>> ELSE Head(parts) \o CombineParts(Tail(parts))

\* Mutant of DropDuplicatesKeepLast: keep = "first".
RECURSIVE DropDuplicatesKeepFirst(_)
DropDuplicatesKeepFirst(rs) ==
    IF rs = <<>> THEN <<>>
    ELSE LET init == SubSeq(rs, 1, Len(rs) - 1)
             last == rs[Len(rs)]
         IN  IF \E i \in 1..Len(init) : NormalizeUrl(init[i].link) = NormalizeUrl(last.link)
             THEN DropDuplicatesKeepFirst(init)
             ELSE DropDuplicatesKeepFirst(init) \o <<last>>

\* drop_duplicates(subset = normalized link, keep = "last")
RECURSIVE DropDuplicatesKeepLast(_)
DropDuplicatesKeepLast(rs) ==
    IF rs = <<>> THEN <<>>
    ELSE LET rest == Tail(rs) IN
         IF \E i \in 1..Len(rest) : NormalizeUrl(rest[i].link) = NormalizeUrl(Head(rs).link)
         THEN DropDuplicatesKeepLast(rest)
         ELSE <<Head(rs)>> \o DropDuplicatesKeepLast(rest)

\* sort_values("Источник", ascending, mergesort): a stable insertion by link.
RECURSIVE InsertSorted(_, _)
InsertSorted(r, sorted) ==
    IF sorted = <<>> THEN <<r>>
    ELSE IF Head(sorted).link.path <= r.link.path
         THEN <<Head(sorted)>> \o InsertSorted(r, Tail(sorted))
         ELSE <<r>> \o sorted

RECURSIVE SortByLink(_)
SortByLink(rs) ==
    IF rs = <<>> THEN <<>>
    ELSE InsertSorted(rs[Len(rs)], SortByLink(SubSeq(rs, 1, Len(rs) - 1)))

\* _build_final_dataframe: combine, deduplicate, sort.
BuildFinal(parts) == SortByLink(DropDuplicatesKeepLast(CombineParts(parts)))

\* db.py 259-261: the rows whose should_skip or should_stop column holds True
\* are dropped; a table without these columns is taken whole.
Flagged(r) == \E c \in {"should_skip", "should_stop"} : c \in DOMAIN r /\ r[c]
Unflagged(df) == SelectSeq(df, LAMBDA r : ~Flagged(r))

\* Mutant of InsertVulnerabilities: a row of a link that is stored already
\* replaces the stored row.
InsertOrReplace(tbl, df, source) ==
    LET kept == Unflagged(df)
        new == [i \in 1..Len(kept) |->
                   [source |-> source, bdu_id |-> kept[i].bdu_id, url |-> kept[i].link]]
    IN  SelectSeq(tbl, LAMBDA r : \A i \in 1..Len(new) : new[i].url # r.url) \o new

\* insert_vulnerabilities(df, source): one row per record.
InsertVulnerabilities(tbl, df, source) ==
    LET kept == Unflagged(df) IN
    tbl \o [i \in 1..Len(kept) |->
               [source |-> source, bdu_id |-> kept[i].bdu_id, url |-> kept[i].link]]

\* Mutant of StatusUnsent: the finally block never reserves.
StatusAlwaysSent(sent) == FALSE

\* The finally block of an id reserves its url when no branch reported it.
StatusUnsent(sent) == ~sent

\* The urls of the ids of a chunk.
ChunkUrls(chunk) == [i \in 1..Len(chunk) |-> Url(chunk[i])]

\* The items of the progress queue.
Total(n) == <<"TOTAL", n>>
Inc == <<"INC", 1>>

\* Mutant of PutNoWait: the send waits for room in the queue.
PutWaits(full) == ~full

\* q.put(item, block=False) inside try/except: the send returns at once,
\* whether the queue has room or not; without room the item is dropped.
PutNoWait(full) == TRUE

\* q.put(item): the send returns when the queue has room.
PutReturns(full) == ~full

\* Mutant of ProgressPut: two increments for one id.
ProgressPutTwice(log, ok) == IF ok THEN log \o <<Inc, Inc>> ELSE log

\* progress_q.put(1, block=False) for one id: accepted, or dropped.
ProgressPut(log, ok) == IF ok THEN Append(log, Inc) ELSE log

\* The puts of k ids, all accepted.
RECURSIVE ProgressPuts(_, _)
ProgressPuts(log, k) == IF k = 0 THEN log ELSE ProgressPuts(ProgressPut(log, TRUE), k - 1)

\* _progress_inc
ProgressInc(done, total) == IF done < total THEN done + 1 ELSE done

VARIABLES
    agents,          \* the stored agents table: a set of rows
    agent_software,  \* the stored agent_software table: rows in insertion order
    lock,            \* the connection holding SQLite's write lock, or Free
    tx,              \* per request thread: the tables as its open transaction sees them
    pc,              \* per request thread: its place in agent_report
    args,            \* per request thread: the arguments of upsert_agent_inventory
    resp,            \* per request thread: the response of its last request
    clock,           \* the wall clock
    nreports,        \* requests received so far
    envl,            \* history: what the thread's request held
    payload,         \* history: the decrypted payload of the thread's request
    stamp,           \* history: the time of the thread's agents upsert
    wrote,           \* history: the thread's request changed the stored tables
    accepted,        \* history: per agent id, its accepted reports
    vulnerabilities, \* the stored vulnerabilities table: rows in insertion order
    opc,             \* the orchestrator's place in process_ids_parallel
    ids,             \* the ids of the run
    chunks,          \* the chunks of the run, one per worker process
    joined,          \* the processes joined so far
    final_df,        \* the aggregated records
    insert_error,    \* the insert into the store raised
    undeleted,       \* the processes whose files the cleanup could not remove
    wpc,             \* per worker: its place in worker_loop
    pos,             \* per worker: the position in its chunk
    attempt,         \* per worker: the fetch attempts made for the current id
    html,            \* per worker: the page fetched for the current id
    status_sent,     \* per worker: status_sent
    rows,            \* per worker: the parsed records
    reserved,        \* per worker: the reserved urls
    missed404,       \* per worker: the not-found urls
    part_file,       \* per worker: the rows in its part_<pid>.csv
    reserved_file,   \* per worker: the urls in its reserved_part_<pid>.txt
    missed_file,     \* per worker: the urls in its missed404_part_<pid>.txt
    outcome,         \* history: per worker, how its last id ended
    agg_parts,       \* the shard set given to the aggregation
    agg_out,         \* the aggregated records of the shard set
    agg_again,       \* the aggregated records of a second aggregation
    agg_step,        \* the aggregations made of the shard set
    progress_on,     \* the run was given a progress queue
    progress_log,    \* the items the progress queue has accepted, in order
    progress_read,   \* the items of it the progress listener has taken
    progress_total,  \* the listener's _progress_total
    progress_done,   \* the listener's _progress_done
    chan_full,       \* the status queue has no room for another item
    apc,             \* the watcher's place in autonomous_loop
    last_seen_news,  \* the content of last_seen_news.txt, or NoFile
    news,            \* what the probe of the current poll gave
    latest,          \* what the latest-id lookup of the current poll gave
    requested,       \* history: the id lists of the harvest invocations so far
    harvest_result,  \* history: how the harvest invocation of the current poll returned
    emitted,         \* history: the last message of the current poll
    npolls,          \* the polls begun so far
    interval_hours,  \* the interval autonomous_loop was started with
    slept,           \* the hours of the current sleep that are over
    id_fn,           \* the function of ids.py that was applied, or "none"
    arg_start,       \* iter_ids: start_id
    arg_end,         \* iter_ids: end_id
    ret_iter,        \* iter_ids: what it returned, or that it raised
    arg_last,        \* subtract_steps: last_id
    arg_steps,       \* subtract_steps: steps
    ret_sub,         \* subtract_steps: what it returned
    cor_fn,          \* the function of reporting.py that was applied, or "none"
    cor_args,        \* its arguments
    cor_ret,         \* what it returned
    mig_pc,          \* init_db on the vulnerabilities table: the statement it is at
    mig_new,         \* the table vulnerabilities: its columns and rows
    mig_old,         \* the table vulnerabilities_old
    mig_pending,     \* the rows of the INSERT that is not yet committed
    mig_before,      \* history: the table vulnerabilities as the first init_db found it
    mig_calls,       \* the calls of init_db so far
    runs,            \* two harvest runs at the same time: the place and the data of each
    shard_dir        \* the part files in RESULTS_DIR, by the process that wrote them

ingestVars ==
    <<agents, agent_software, lock, tx, pc, args, resp, clock, nreports,
      envl, payload, stamp, wrote, accepted>>

workerVars ==
    <<wpc, pos, attempt, html, status_sent, rows, reserved, missed404,
      part_file, reserved_file, missed_file, outcome>>

runVars ==
    <<vulnerabilities, opc, ids, chunks, joined, final_df, insert_error, undeleted>>

harvestVars == <<runVars, workerVars>>

aggVars == <<agg_parts, agg_out, agg_again, agg_step>>

\* What the steps of the harvest run leave alone, and what the steps of the
\* report endpoint leave alone.
chanVars ==
    <<progress_on, progress_log, progress_read, progress_total, progress_done, chan_full>>

watchVars ==
    <<apc, last_seen_news, news, latest, requested, harvest_result, emitted, npolls,
      interval_hours, slept>>

idVars == <<id_fn, arg_start, arg_end, ret_iter, arg_last, arg_steps, ret_sub>>

\* The variables of the functions applied on their own.
corVars == <<cor_fn, cor_args, cor_ret>>

migVars == <<mig_pc, mig_new, mig_old, mig_pending, mig_before, mig_calls>>

runsVars == <<runs, shard_dir>>

fnVars == <<idVars, corVars, migVars, runsVars>>

outerVars == <<ingestVars, fnVars, aggVars, watchVars, chanVars>>
nonIngestVars == <<harvestVars, fnVars, aggVars, watchVars, chanVars>>

vars == <<ingestVars, harvestVars, fnVars, aggVars, watchVars, chanVars>>

Resp(k, at) == [kind |-> k, at |-> at]
Envelope(body, keyLoads) ==
    [shape |-> body.shape, ek |-> body.enc_key.kind, ed |-> body.enc_data.kind,
     keyLoads |-> keyLoads]
NoEnvelope == [shape |-> "none", ek |-> "none", ed |-> "none", keyLoads |-> TRUE]
NoAccepted == [n |-> 0, first_at |-> 0, last_at |-> 0, last |-> NoPayload, prev |-> NoPayload]

InitIngest ==
    /\ agents = {}
    /\ agent_software = <<>>
    /\ lock = Free
    /\ tx = [t \in Threads |-> NoTx]
    /\ pc = [t \in Threads |-> "idle"]
    /\ args = [t \in Threads |-> NoArgs]
    /\ resp = [t \in Threads |-> Resp("none", "none")]
    /\ clock = 0
    /\ nreports = 0
    /\ envl = [t \in Threads |-> NoEnvelope]
    /\ payload = [t \in Threads |-> NoPayload]
    /\ stamp = [t \in Threads |-> 0]
    /\ wrote = [t \in Threads |-> FALSE]
    /\ accepted = [a \in AgentIds |-> NoAccepted]

InitHarvest ==
    /\ vulnerabilities = <<>>
    /\ opc = "idle"
    /\ ids = <<>>
    /\ chunks = <<>>
    /\ joined = 0
    /\ final_df = <<>>
    /\ insert_error = FALSE
    /\ undeleted = {}
    /\ wpc = [w \in Slots |-> "none"]
    /\ pos = [w \in Slots |-> 1]
    /\ attempt = [w \in Slots |-> 0]
    /\ html = [w \in Slots |-> "none"]
    /\ status_sent = [w \in Slots |-> FALSE]
    /\ rows = [w \in Slots |-> <<>>]
    /\ reserved = [w \in Slots |-> <<>>]
    /\ missed404 = [w \in Slots |-> <<>>]
    /\ part_file = [w \in Slots |-> <<>>]
    /\ reserved_file = [w \in Slots |-> <<>>]
    /\ missed_file = [w \in Slots |-> <<>>]
    /\ outcome = [w \in Slots |-> "none"]

InitAggregate ==
    /\ agg_parts = <<>>
    /\ agg_out = <<>>
    /\ agg_again = <<>>
    /\ agg_step = 0

\* The queues of a run: here a run without a progress queue (progress_q = None).
InitChannel ==
    /\ progress_on = FALSE
    /\ progress_log = <<>>
    /\ progress_read = 0
    /\ progress_total = 0
    /\ progress_done = 0
    /\ chan_full = FALSE

\* No file, and nothing polled yet.
NoFile == <<"NoFile">>
CountNone == [int |-> FALSE, n |-> 0]
CountOf(k) == [int |-> TRUE, n |-> k]
News(raised, url, count) == [raised |-> raised, news_url |-> url, count |-> count]
NoNews == News(FALSE, None, CountNone)
\* The text of an id, "<year_str>-<num_str>": year is int(year_str) and ylen
\* the length of year_str; num is int(num_str), width the digits of num_str,
\* and lf tells that a line feed ends the text (which '$' of _ID_RE lets pass
\* and int() passes over).
IdText(year, ylen, num, width, lf) ==
    [year |-> year, ylen |-> ylen, num |-> num, width |-> width, lf |-> lf]

Digits(n) == IF n < 10 THEN 1 ELSE IF n < 100 THEN 2 ELSE IF n < 1000 THEN 3 ELSE 4

\* The id as f'{year}-...' prints it: the year without zeros before it.
VulnId(year, num, width) == IdText(year, Digits(year), num, width, FALSE)
Latest(k, id) == [kind |-> k, id |-> id]
NoLatest == Latest("none", VulnId(0, 0, 1))

\* RESULTS_DIR holds no last_seen_news.txt when the watcher is started first.
InitWatch ==
    /\ apc = "probe"
    /\ last_seen_news = NoFile
    /\ news = NoNews
    /\ latest = NoLatest
    /\ requested = <<>>
    /\ harvest_result = "none"
    /\ emitted = "none"
    /\ npolls = 0
    /\ interval_hours = 1
    /\ slept = 0

\* No function of ids.py applied yet.
InitIds ==
    /\ id_fn = "none"
    /\ arg_start = VulnId(0, 0, 1)
    /\ arg_end = VulnId(0, 0, 1)
    /\ ret_iter = [raised |-> FALSE, value |-> <<>>]
    /\ arg_last = VulnId(0, 0, 1)
    /\ arg_steps = 0
    /\ ret_sub = VulnId(0, 0, 1)

\* No function of reporting.py applied yet.
InitCorrelate ==
    /\ cor_fn = "none"
    /\ cor_args = <<>>
    /\ cor_ret = <<>>

\* A table that does not exist.
NoTable == [exists |-> FALSE, cols |-> <<>>, rows |-> <<>>]

InitMigrate ==
    /\ mig_pc = "none"
    /\ mig_new = NoTable
    /\ mig_old = NoTable
    /\ mig_pending = <<>>
    /\ mig_before = NoTable
    /\ mig_calls = 0

\* The watcher's harvest and a harvest started by hand.
Runs == {"watcher", "ondemand"}

\* The worker processes: the k-th process of a run.
Pids == Runs \X Slots

NoRun == [pc |-> "idle", chunks |-> <<>>, flushed |-> {}, final |-> <<>>, inserted |-> "none"]

InitRuns ==
    /\ runs = [r \in Runs |-> NoRun]
    /\ shard_dir = [p \in Pids |-> <<>>]

InitFn == InitIds /\ InitCorrelate /\ InitMigrate /\ InitRuns

Init == InitIngest /\ InitHarvest /\ InitAggregate /\ InitChannel /\ InitWatch /\ InitFn

(***************************************************************************)
(* agent_report, one thread per request (app.run(threaded=True)).          *)
(***************************************************************************)
\* History: the step of thread t changes the stored tables.
Track(t) ==
    [wrote EXCEPT ![t] =
        (pc[t] \notin {"idle", "done"} /\ wrote[t])
        \/ <<agents', agent_software'>> # <<agents, agent_software>>]

\* What agent_report makes of each request of the model, with the private key
\* file readable or not.
Checked ==
    { [out |-> AgentReportChecks(body, keyLoads), envl |-> Envelope(body, keyLoads)] :
          body \in Requests, keyLoads \in BOOLEAN }

\* The request arrives and is checked up to the call of upsert_agent_inventory.
Receive(t) ==
    /\ pc[t] \in {"idle", "done"}
    /\ nreports < MaxReports
    /\ \E c \in Checked :
         /\ pc' = [pc EXCEPT ![t] = IF c.out.kind = "call" THEN "upsert" ELSE "done"]
         /\ args' = [args EXCEPT ![t] = c.out.args]
         /\ resp' = [resp EXCEPT ![t] =
                        IF c.out.kind = "call" THEN Resp("pending", "none")
                        ELSE Resp(c.out.kind, "checks")]
         /\ envl' = [envl EXCEPT ![t] = c.envl]
         /\ payload' = [payload EXCEPT ![t] = c.out.payload]
    /\ nreports' = nreports + 1
    /\ UNCHANGED <<agents, agent_software, lock, tx, clock, stamp, accepted>>
    /\ UNCHANGED nonIngestVars
    /\ wrote' = Track(t)

\* An agent seals a payload under a fresh session key, wraps the key for the
\* server, and posts the message; a byte of enc_data may be changed on the
\* way.  The request is checked as every request is.
SealedReceive(t) ==
    /\ pc[t] \in {"idle", "done"}
    /\ nreports < MaxReports
    /\ cor_fn \in {"none", "agent_report"}
    /\ cor_fn' = "agent_report"
    /\ \E m \in SealedMessages, keyLoads \in BOOLEAN :
         LET ek == EncKey("wrapped", "server", m.key)
             ed == EncDataOf(ChangeByte(EncryptForServer(Sealing(m.plain, m.key, CtLen)), m.changed))
             body == Body("object", ek, ed)
             out == AgentReportChecks(body, keyLoads)
         IN  /\ pc' = [pc EXCEPT ![t] = IF out.kind = "call" THEN "upsert" ELSE "done"]
             /\ args' = [args EXCEPT ![t] = out.args]
             /\ resp' = [resp EXCEPT ![t] =
                            IF out.kind = "call" THEN Resp("pending", "none")
                            ELSE Resp(out.kind, "checks")]
             /\ envl' = [envl EXCEPT ![t] = Envelope(body, keyLoads)]
             /\ payload' = [payload EXCEPT ![t] = out.payload]
             /\ cor_args' = (t :> m) @@ cor_args
             /\ cor_ret' = (t :> DecryptPayload(ek, ed)) @@ cor_ret
    /\ nreports' = nreports + 1
    /\ UNCHANGED <<agents, agent_software, lock, tx, clock, stamp, accepted>>
    /\ UNCHANGED <<idVars, migVars, runsVars, harvestVars, aggVars, watchVars, chanVars>>
    /\ wrote' = Track(t)

\* The connection is closed on an exception: the response is db_error.
Fail(t, db) ==
    /\ agents' = db.agents
    /\ agent_software' = db.agent_software
    /\ lock' = IF lock = t THEN Free ELSE lock
    /\ tx' = [tx EXCEPT ![t] = NoTx]
    /\ pc' = [pc EXCEPT ![t] = "done"]
    /\ args' = [args EXCEPT ![t] = NoArgs]
    /\ stamp' = [stamp EXCEPT ![t] = 0]
    /\ payload' = [payload EXCEPT ![t] = NoPayload]
    /\ resp' = [resp EXCEPT ![t] = Resp("db_error", pc[t])]
    /\ UNCHANGED <<clock, nreports, envl, accepted>>
    /\ UNCHANGED nonIngestVars
    /\ wrote' = Track(t)

\* init_db(), _get_connection() and the agents upsert: the first write of the
\* transaction takes the write lock.
Upsert(t) ==
    /\ pc[t] = "upsert"
    /\ IF ~Bindable(args[t].ip_address)
       THEN Fail(t, CloseConnection(Db(agents, agent_software), Db(agents, agent_software)))
       ELSE /\ CanWrite(lock, t)
            /\ lock' = t
            /\ tx' = [tx EXCEPT ![t] = Db(UpsertAgent(agents, args[t], clock), agent_software)]
            /\ stamp' = [stamp EXCEPT ![t] = clock]
            /\ pc' = [pc EXCEPT ![t] = "delete"]
            /\ UNCHANGED <<agents, agent_software, args, resp, clock, nreports,
                           envl, payload, accepted>>
            /\ UNCHANGED nonIngestVars
            /\ wrote' = Track(t)

\* Another connection holds the write lock for longer than the busy timeout.
LockTimeout(t) ==
    /\ pc[t] = "upsert"
    /\ ~CanWrite(lock, t)
    /\ Fail(t, CloseConnection(Db(agents, agent_software), Db(agents, agent_software)))

\* The old software rows of the agent are deleted.
Delete(t) ==
    /\ pc[t] = "delete"
    /\ tx' = [tx EXCEPT ![t] =
                 Db(tx[t].agents, DeleteSoftware(tx[t].agent_software, args[t].agent_id))]
    /\ pc' = [pc EXCEPT ![t] = "insert"]
    /\ UNCHANGED <<agents, agent_software, lock, args, resp, clock, nreports,
                   envl, payload, stamp, accepted>>
    /\ UNCHANGED nonIngestVars
    /\ wrote' = Track(t)

\* The new rows are built and inserted.
InsertRows(t) ==
    /\ pc[t] = "insert"
    /\ LET built == BuildRows(args[t].agent_id, args[t].software_list, clock) IN
       IF ~built.ok
       THEN Fail(t, CloseConnection(Db(agents, agent_software), tx[t]))
       ELSE /\ tx' = [tx EXCEPT ![t] = Db(tx[t].agents, tx[t].agent_software \o built.rows)]
            /\ pc' = [pc EXCEPT ![t] = "commit"]
            /\ UNCHANGED <<agents, agent_software, lock, args, resp, clock, nreports,
                           envl, payload, stamp, accepted>>
            /\ UNCHANGED nonIngestVars
            /\ wrote' = Track(t)

\* conn.commit(), conn.close(), and the response ok.
Commit(t) ==
    /\ pc[t] = "commit"
    /\ LET db == CommitTx(Db(agents, agent_software), tx[t])
           a == args[t].agent_id
       IN  /\ agents' = db.agents
           /\ agent_software' = db.agent_software
           /\ accepted' = [accepted EXCEPT ![a] =
                  [n |-> @.n + 1,
                   first_at |-> IF @.n = 0 THEN stamp[t] ELSE @.first_at,
                   last_at |-> stamp[t],
                   last |-> payload[t],
                   prev |-> @.last]]
    /\ lock' = Free
    /\ tx' = [tx EXCEPT ![t] = NoTx]
    /\ pc' = [pc EXCEPT ![t] = "done"]
    /\ args' = [args EXCEPT ![t] = NoArgs]
    /\ stamp' = [stamp EXCEPT ![t] = 0]
    /\ payload' = [payload EXCEPT ![t] = NoPayload]
    /\ resp' = [resp EXCEPT ![t] = Resp("ok", "commit")]
    /\ UNCHANGED <<clock, nreports, envl>>
    /\ UNCHANGED nonIngestVars
    /\ wrote' = Track(t)

\* A statement of the write raises (sqlite3.Error): the connection is closed.
DbError(t) ==
    /\ pc[t] \in {"upsert", "delete", "insert", "commit"}
    /\ Fail(t, CloseConnection(Db(agents, agent_software),
                               IF lock = t THEN tx[t] ELSE Db(agents, agent_software)))

Tick ==
    /\ clock < MaxClock
    /\ clock' = clock + 1
    /\ UNCHANGED <<agents, agent_software, lock, tx, pc, args, resp, nreports,
                   envl, payload, stamp, wrote, accepted>>
    /\ UNCHANGED nonIngestVars

NextIngest ==
    \/ \E t \in Threads : Receive(t)
    \/ \E t \in Threads : Upsert(t)
    \/ \E t \in Threads : LockTimeout(t)
    \/ \E t \in Threads : Delete(t)
    \/ \E t \in Threads : InsertRows(t)
    \/ \E t \in Threads : Commit(t)
    \/ \E t \in Threads : DbError(t)
    \/ Tick

SpecIngest == Init /\ [][NextIngest]_vars

\* The report endpoint with requests that agents sealed.
NextCrypto ==
    \/ \E t \in Threads : SealedReceive(t)
    \/ \E t \in Threads : Upsert(t)
    \/ \E t \in Threads : LockTimeout(t)
    \/ \E t \in Threads : Delete(t)
    \/ \E t \in Threads : InsertRows(t)
    \/ \E t \in Threads : Commit(t)
    \/ \E t \in Threads : DbError(t)
    \/ Tick

SpecCrypto == Init /\ [][NextCrypto]_vars

(***************************************************************************)
(* worker_loop, one process per chunk.                                     *)
(***************************************************************************)
Chunk(w) == chunks[w]

\* How many of n non-blocking puts on the progress queue are accepted: none
\* without a queue, any number with one (a put that raises is dropped).
Accepted(on, n) == IF on THEN 0..n ELSE {0}
CurrentId(w) == Chunk(w)[pos[w]]

\* BrowserHTMLParser(headless=True): the driver starts, or every id of the
\* chunk is reserved and the worker goes on to write its files.
StartDriver(w) ==
    /\ wpc[w] = "start"
    /\ PutNoWait(chan_full)
    /\ \E ok \in BOOLEAN :
         IF ok
         THEN /\ wpc' = [wpc EXCEPT ![w] = "fetch"]
              /\ UNCHANGED <<reserved, outcome, progress_log>>
         ELSE /\ reserved' = [reserved EXCEPT ![w] = @ \o ChunkUrls(Chunk(w))]
              /\ outcome' = [outcome EXCEPT ![w] = "no_driver"]
              /\ wpc' = [wpc EXCEPT ![w] = "flush_rows"]
              /\ \E k \in Accepted(progress_on, Len(Chunk(w))) :
                     progress_log' = ProgressPuts(progress_log, k)
    /\ UNCHANGED <<pos, attempt, html, status_sent, rows, missed404,
                   part_file, reserved_file, missed_file>>
    /\ UNCHANGED <<progress_on, progress_read, progress_total, progress_done, chan_full>>
    /\ UNCHANGED <<runVars, ingestVars, fnVars, aggVars, watchVars>>

\* One attempt of fetch_html for the current id: a page, an empty page, the
\* 404 page, or an exception of the driver.
FetchAttempt(w) ==
    /\ wpc[w] = "fetch"
    /\ PutNoWait(chan_full)
    /\ \E res \in {"page", "empty", "notfound", "error"} :
         CASE res = "page" ->
                /\ html' = [html EXCEPT ![w] = "page"]
                /\ wpc' = [wpc EXCEPT ![w] = "parse"]
                /\ UNCHANGED <<attempt, status_sent, reserved, missed404, outcome>>
           [] res = "empty" ->
                /\ html' = [html EXCEPT ![w] = "empty"]
                /\ wpc' = [wpc EXCEPT ![w] = "finally"]
                /\ UNCHANGED <<attempt, status_sent, reserved, missed404, outcome>>
           [] res = "notfound" ->
                /\ missed404' = [missed404 EXCEPT ![w] = Append(@, Url(CurrentId(w)))]
                /\ status_sent' = [status_sent EXCEPT ![w] = TRUE]
                /\ outcome' = [outcome EXCEPT ![w] = "not_found"]
                /\ wpc' = [wpc EXCEPT ![w] = "finally"]
                /\ UNCHANGED <<attempt, html, reserved>>
           [] res = "error" /\ ~LastAttempt(attempt[w]) ->
                /\ attempt' = [attempt EXCEPT ![w] = @ + 1]
                /\ UNCHANGED <<wpc, html, status_sent, reserved, missed404, outcome>>
           [] res = "error" /\ LastAttempt(attempt[w]) ->
                /\ reserved' = [reserved EXCEPT ![w] = Append(@, Url(CurrentId(w)))]
                /\ status_sent' = [status_sent EXCEPT ![w] = TRUE]
                /\ outcome' = [outcome EXCEPT ![w] = "load_error"]
                /\ wpc' = [wpc EXCEPT ![w] = "finally"]
                /\ UNCHANGED <<attempt, html, missed404>>
    /\ UNCHANGED <<pos, rows, part_file, reserved_file, missed_file>>
    /\ UNCHANGED <<runVars, outerVars>>

\* parse_vulnerability_data on a page: a record, an empty frame, a frame flagged
\* should_skip or should_stop, or an exception.
Parse(w) ==
    /\ wpc[w] = "parse"
    /\ PutNoWait(chan_full)
    /\ \E res \in {"record", "empty", "skip", "raise"} :
         /\ IF res = "record"
            THEN /\ rows' = [rows EXCEPT ![w] = Append(@, Record(CurrentId(w)))]
                 /\ UNCHANGED reserved
            ELSE /\ reserved' = [reserved EXCEPT ![w] = Append(@, Url(CurrentId(w)))]
                 /\ UNCHANGED rows
         /\ outcome' = [outcome EXCEPT ![w] = "parse_" \o res]
    /\ status_sent' = [status_sent EXCEPT ![w] = TRUE]
    /\ wpc' = [wpc EXCEPT ![w] = "finally"]
    /\ UNCHANGED <<pos, attempt, html, missed404, part_file, reserved_file, missed_file>>
    /\ UNCHANGED <<runVars, outerVars>>

\* The finally block of the id, and the step to the next id.
Finally(w) ==
    /\ wpc[w] = "finally"
    /\ PutNoWait(chan_full)
    /\ IF StatusUnsent(status_sent[w])
       THEN /\ reserved' = [reserved EXCEPT ![w] = Append(@, Url(CurrentId(w)))]
            /\ outcome' = [outcome EXCEPT ![w] = "empty_page"]
       ELSE UNCHANGED <<reserved, outcome>>
    /\ pos' = [pos EXCEPT ![w] = @ + 1]
    /\ attempt' = [attempt EXCEPT ![w] = 0]
    /\ html' = [html EXCEPT ![w] = "none"]
    /\ status_sent' = [status_sent EXCEPT ![w] = FALSE]
    /\ wpc' = [wpc EXCEPT ![w] = IF pos[w] = Len(Chunk(w)) THEN "flush_rows" ELSE "fetch"]
    /\ \E k \in Accepted(progress_on, 1) : progress_log' = ProgressPut(progress_log, k = 1)
    /\ UNCHANGED <<rows, missed404, part_file, reserved_file, missed_file>>
    /\ UNCHANGED <<progress_on, progress_read, progress_total, progress_done, chan_full>>
    /\ UNCHANGED <<runVars, ingestVars, fnVars, aggVars, watchVars>>

\* _flush_parts: part_<pid>.csv, when there are rows.
FlushRows(w) ==
    /\ wpc[w] = "flush_rows"
    /\ part_file' = [part_file EXCEPT ![w] = IF rows[w] # <<>> THEN rows[w] ELSE @]
    /\ wpc' = [wpc EXCEPT ![w] = "flush_reserved"]
    /\ UNCHANGED <<pos, attempt, html, status_sent, rows, reserved, missed404,
                   reserved_file, missed_file, outcome>>
    /\ UNCHANGED <<runVars, outerVars>>

\* _flush_parts: reserved_part_<pid>.txt, when there are reserved urls.
FlushReserved(w) ==
    /\ wpc[w] = "flush_reserved"
    /\ reserved_file' = [reserved_file EXCEPT ![w] = IF reserved[w] # <<>> THEN reserved[w] ELSE @]
    /\ wpc' = [wpc EXCEPT ![w] = "flush_missed"]
    /\ UNCHANGED <<pos, attempt, html, status_sent, rows, reserved, missed404,
                   part_file, missed_file, outcome>>
    /\ UNCHANGED <<runVars, outerVars>>

\* _flush_parts: missed404_part_<pid>.txt, when there are not-found urls; the
\* driver is closed and the process returns.
FlushMissed(w) ==
    /\ wpc[w] = "flush_missed"
    /\ missed_file' = [missed_file EXCEPT ![w] = IF missed404[w] # <<>> THEN missed404[w] ELSE @]
    /\ wpc' = [wpc EXCEPT ![w] = "exited"]
    /\ UNCHANGED <<pos, attempt, html, status_sent, rows, reserved, missed404,
                   part_file, reserved_file, outcome>>
    /\ UNCHANGED <<runVars, outerVars>>

\* The process dies (an unhandled fault, a kill) wherever it is.
Crash(w) ==
    /\ wpc[w] \notin {"none", "exited", "crashed"}
    /\ wpc' = [wpc EXCEPT ![w] = "crashed"]
    /\ UNCHANGED <<pos, attempt, html, status_sent, rows, reserved, missed404,
                   part_file, reserved_file, missed_file, outcome>>
    /\ UNCHANGED <<runVars, outerVars>>

(***************************************************************************)
(* process_ids_parallel                                                    *)
(***************************************************************************)
\* The call: an empty id list returns at once; otherwise the ids are chunked
\* for max(1, workers) processes.
StartRun ==
    /\ \/ opc = "idle" /\ ~progress_on
       \/ opc = "called"
    /\ \E n \in (IF opc = "called" THEN {Len(ids)} ELSE 0..MaxIds), workers \in 0..MaxWorkers :
         /\ ids' = Ids(n)
         /\ chunks' = Chunkify(Ids(n), Max(1, Max(1, workers)))
         /\ opc' = IF n = 0 THEN "done" ELSE "spawn"
         /\ \E k \in Accepted(progress_on /\ n > 0, 1) :
                progress_log' = IF k = 1 THEN Append(progress_log, Total(n)) ELSE progress_log
    /\ UNCHANGED <<vulnerabilities, joined, final_df, insert_error, undeleted>>
    /\ UNCHANGED <<progress_on, progress_read, progress_total, progress_done, chan_full>>
    /\ UNCHANGED <<workerVars, ingestVars, fnVars, aggVars, watchVars>>

\* _start_workers: p.start() for the next chunk.
Spawn(k) ==
    /\ opc = "spawn"
    /\ k \in 1..Len(chunks)
    /\ wpc[k] = "none"
    /\ \A j \in 1..(k - 1) : wpc[j] # "none"
    /\ wpc' = [wpc EXCEPT ![k] = "start"]
    /\ opc' = IF k = Len(chunks) THEN "join" ELSE "spawn"
    /\ UNCHANGED <<vulnerabilities, ids, chunks, joined, final_df, insert_error, undeleted>>
    /\ UNCHANGED <<pos, attempt, html, status_sent, rows, reserved, missed404,
                   part_file, reserved_file, missed_file, outcome>>
    /\ UNCHANGED outerVars

\* _start_workers: p.join() for the next process returns when it has ended.
Join ==
    /\ opc = "join"
    /\ Exited(wpc[joined + 1])
    /\ joined' = joined + 1
    /\ opc' = IF joined + 1 = Len(chunks) THEN "collect" ELSE "join"
    /\ UNCHANGED <<vulnerabilities, ids, chunks, final_df, insert_error, undeleted>>
    /\ UNCHANGED <<workerVars, outerVars>>

\* The part files found by glob, sorted, and the final table built from them.
Collect ==
    /\ opc = "collect"
    /\ LET parts == SelectSeq([w \in Slots |-> part_file[w]], LAMBDA f : f # <<>>)
           final == BuildFinal(parts)
       IN  /\ final_df' = final
           /\ opc' = IF parts = <<>> \/ final = <<>> THEN "cleanup" ELSE "insert"
    /\ UNCHANGED <<vulnerabilities, ids, chunks, joined, insert_error, undeleted>>
    /\ UNCHANGED <<workerVars, outerVars>>

\* Mutant of AfterInsert: a failed insert ends the run at once.
AfterInsertFailureReturns(ok) == IF ok THEN "cleanup" ELSE "done"

\* Where process_ids_parallel goes after the insert, raised or not.
AfterInsert(ok) == "cleanup"

\* insert_vulnerabilities(final_df, source="fstek"); an exception is reported
\* as a status event.
Insert ==
    /\ opc = "insert"
    /\ \E ok \in BOOLEAN :
         IF ok
         THEN /\ vulnerabilities' = InsertVulnerabilities(vulnerabilities, final_df, "fstek")
              /\ UNCHANGED insert_error
              /\ opc' = AfterInsert(TRUE)
         ELSE /\ insert_error' = TRUE
              /\ UNCHANGED vulnerabilities
              /\ opc' = AfterInsert(FALSE)
    /\ UNCHANGED <<ids, chunks, joined, final_df, undeleted>>
    /\ UNCHANGED <<workerVars, outerVars>>

\* _cleanup_temp_parts: the part, reserved and missed404 files are removed; a
\* file whose unlink raises OSError is passed over and stays (here: the files
\* of the processes in locked).
Cleanup ==
    /\ opc = "cleanup"
    /\ \E locked \in SUBSET Slots :
         /\ part_file' = [w \in Slots |-> IF w \in locked THEN part_file[w] ELSE <<>>]
         /\ reserved_file' = [w \in Slots |-> IF w \in locked THEN reserved_file[w] ELSE <<>>]
         /\ missed_file' = [w \in Slots |-> IF w \in locked THEN missed_file[w] ELSE <<>>]
         /\ undeleted' = { w \in locked :
                             part_file[w] # <<>> \/ reserved_file[w] # <<>> \/ missed_file[w] # <<>> }
    /\ opc' = "done"
    /\ UNCHANGED <<wpc, pos, attempt, html, status_sent, rows, reserved, missed404, outcome>>
    /\ UNCHANGED <<vulnerabilities, ids, chunks, joined, final_df, insert_error>>
    /\ UNCHANGED outerVars

\* process_range_from_to: the result is put on the status queue, with a put
\* that waits for room, and the call returns.
Publish ==
    /\ opc = "done"
    /\ PutReturns(chan_full)
    /\ opc' = "returned"
    /\ UNCHANGED <<vulnerabilities, ids, chunks, joined, final_df, insert_error, undeleted>>
    /\ UNCHANGED <<workerVars, outerVars>>

NextHarvest ==
    \/ StartRun
    \/ \E k \in Slots : Spawn(k)
    \/ Join
    \/ Collect
    \/ Insert
    \/ Cleanup
    \/ Publish
    \/ \E w \in Slots : StartDriver(w)
    \/ \E w \in Slots : FetchAttempt(w)
    \/ \E w \in Slots : Parse(w)
    \/ \E w \in Slots : Finally(w)
    \/ \E w \in Slots : FlushRows(w)
    \/ \E w \in Slots : FlushReserved(w)
    \/ \E w \in Slots : FlushMissed(w)
    \/ \E w \in Slots : Crash(w)

SpecHarvest == Init /\ [][NextHarvest]_vars

(***************************************************************************)
(* A harvest run called with a bounded status queue that nobody may be     *)
(* reading (autonomous_loop hands its status_q on), under fair scheduling  *)
(* of the run's own steps.                                                 *)
(***************************************************************************)
\* The status queue of the caller is full or has room when the run starts.
InitBounded ==
    /\ InitIngest /\ InitHarvest /\ InitAggregate /\ InitWatch /\ InitFn
    /\ progress_on = FALSE
    /\ progress_log = <<>>
    /\ progress_read = 0
    /\ progress_total = 0
    /\ progress_done = 0
    /\ chan_full \in BOOLEAN

\* The reader of the status queue takes an item: the queue has room again.
StatusDrain ==
    /\ chan_full
    /\ chan_full' = FALSE
    /\ UNCHANGED <<progress_on, progress_log, progress_read, progress_total, progress_done>>
    /\ UNCHANGED <<ingestVars, fnVars, harvestVars, aggVars, watchVars>>

NextBounded ==
    \/ NextHarvest
    \/ StatusDrain

\* Every step of the orchestrator and of a live worker is taken in the end; a
\* put that waits for room goes on whenever room comes again.  Nothing makes
\* the reader take an item, and nothing makes a process die.
FairHarvest ==
    /\ WF_vars(StartRun)
    /\ \A k \in Slots : WF_vars(Spawn(k))
    /\ WF_vars(Join)
    /\ WF_vars(Collect)
    /\ WF_vars(Insert)
    /\ WF_vars(Cleanup)
    /\ SF_vars(Publish)
    /\ \A w \in Slots :
         /\ WF_vars(StartDriver(w))
         /\ WF_vars(FetchAttempt(w))
         /\ WF_vars(Parse(w))
         /\ WF_vars(Finally(w))
         /\ WF_vars(FlushRows(w))
         /\ WF_vars(FlushReserved(w))
         /\ WF_vars(FlushMissed(w))

SpecBounded == InitBounded /\ [][NextBounded]_vars /\ FairHarvest

(***************************************************************************)
(* app_unified.py: a harvest run started from the window, with its         *)
(* progress queue and progress listener.                                   *)
(***************************************************************************)
\* _on_start_click: the queues are made and the listeners started.
InitGui ==
    /\ InitIngest /\ InitHarvest /\ InitAggregate /\ InitWatch /\ InitFn
    /\ progress_on = TRUE
    /\ progress_log = <<>>
    /\ progress_read = 0
    /\ progress_total = 0
    /\ progress_done = 0
    /\ chan_full = FALSE

\* Mutant of AfterAnnounce: a failed announcement does not stop the call.
AnnounceFailureIgnored(ok) == "called"

\* _run_fstek_range after its put of ('TOTAL', total): process_range_from_to is
\* called, or the exception of the put ends the method.
AfterAnnounce(ok) == IF ok THEN "called" ELSE "aborted"

\* _run_fstek_range: the ids of the range are counted and the total is put on
\* the progress queue, with a put that is not guarded.
RunFstekRange ==
    /\ opc = "idle"
    /\ progress_on
    /\ \E n \in 1..MaxIds, ok \in BOOLEAN :
         /\ ids' = Ids(n)
         /\ progress_log' = IF ok THEN Append(progress_log, Total(n)) ELSE progress_log
         /\ opc' = AfterAnnounce(ok)
    /\ UNCHANGED <<vulnerabilities, chunks, joined, final_df, insert_error, undeleted>>
    /\ UNCHANGED <<progress_on, progress_read, progress_total, progress_done, chan_full>>
    /\ UNCHANGED <<workerVars, ingestVars, fnVars, aggVars, watchVars>>

\* _progress_listener: the next item of the queue is taken.
Consume ==
    /\ progress_read < Len(progress_log)
    /\ LET item == progress_log[progress_read + 1] IN
         IF item[1] = "TOTAL"
         THEN /\ progress_total' = Max(0, item[2])
              /\ progress_done' = 0
         ELSE /\ progress_done' = ProgressInc(progress_done, progress_total)
              /\ UNCHANGED progress_total
    /\ progress_read' = progress_read + 1
    /\ UNCHANGED <<progress_on, progress_log, chan_full>>
    /\ UNCHANGED <<ingestVars, fnVars, harvestVars, aggVars, watchVars>>

\* The run of the window: its workers run to their end.
NextProgress ==
    \/ RunFstekRange
    \/ Consume
    \/ StartRun
    \/ \E k \in Slots : Spawn(k)
    \/ Join
    \/ Collect
    \/ Insert
    \/ Cleanup
    \/ Publish
    \/ \E w \in Slots : StartDriver(w)
    \/ \E w \in Slots : FetchAttempt(w)
    \/ \E w \in Slots : Parse(w)
    \/ \E w \in Slots : Finally(w)
    \/ \E w \in Slots : FlushRows(w)
    \/ \E w \in Slots : FlushReserved(w)
    \/ \E w \in Slots : FlushMissed(w)

SpecProgress == InitGui /\ [][NextProgress]_vars

(***************************************************************************)
(* _build_final_dataframe over an arbitrary set of part files.             *)
(***************************************************************************)
\* A link as a part file holds it: the page address, with or without utm_*
\* parameters and a fragment.
Link(path, utm, fragment) == [path |-> path, utm |-> utm, fragment |-> fragment]

\* Rows of part files: three of one page under different links, one of another.
AggRecords ==
    { [bdu_id |-> 1, link |-> Link(1, FALSE, FALSE)],
      [bdu_id |-> 2, link |-> Link(1, TRUE, FALSE)],
      [bdu_id |-> 3, link |-> Link(1, FALSE, TRUE)],
      [bdu_id |-> 4, link |-> Link(2, FALSE, FALSE)] }

SeqsUpTo(S, n) == UNION { [1..k -> S] : k \in 0..n }

\* The shard sets: up to MaxParts part files of up to MaxRows rows, in the
\* order of their sorted paths.
ShardSets == SeqsUpTo(SeqsUpTo(AggRecords, MaxRows), MaxParts)

\* The aggregation of a shard set.
Aggregate ==
    /\ agg_step = 0
    /\ \E parts \in ShardSets :
         /\ agg_parts' = parts
         /\ agg_out' = BuildFinal(parts)
    /\ agg_step' = 1
    /\ UNCHANGED agg_again
    /\ UNCHANGED <<ingestVars, fnVars, harvestVars, chanVars, watchVars>>

\* The aggregation of the same shard set once more.
AggregateAgain ==
    /\ agg_step = 1
    /\ agg_again' = BuildFinal(agg_parts)
    /\ agg_step' = 2
    /\ UNCHANGED <<agg_parts, agg_out>>
    /\ UNCHANGED <<ingestVars, fnVars, harvestVars, chanVars, watchVars>>

NextAggregate ==
    \/ Aggregate
    \/ AggregateAgain

SpecAggregate == Init /\ [][NextAggregate]_vars

(***************************************************************************)
(* ids.py                                                                  *)
(***************************************************************************)
\* validate_vuln_id: four digits, '-', one digit or more.
ValidateVulnId(id) == id.ylen = 4 /\ id.width >= 1

\* _split_id: int(year_str), int(num_str), len(num_str).
SplitId(id) ==
    [year |-> id.year, num |-> id.num, width |-> id.width + (IF id.lf THEN 1 ELSE 0)]

\* Mutant of FormatId: no zeros are put before the number.
FormatIdNoPad(year, num, width) == VulnId(year, num, Digits(num))

\* f'{year}-{num:0{width}d}': zeros are put before a number of fewer digits.
FormatId(year, num, width) == VulnId(year, num, Max(width, Digits(num)))

\* Mutant of SubtractSteps: the number is not held at 0 or above 0 but at 1.
SubtractStepsToOne(last_id, steps) ==
    LET p == SplitId(last_id)
    IN  FormatId(p.year, Max(1, p.num - Max(0, steps)), p.width)

\* subtract_steps
SubtractSteps(last_id, steps) ==
    LET p == SplitId(last_id)
    IN  FormatId(p.year, Max(0, p.num - Max(0, steps)), p.width)

\* Mutant of RangeAccepted: the years are not compared.
RangeAcceptedAnyYear(start_id, end_id) ==
    SplitId(end_id).num >= SplitId(start_id).num

\* iter_ids raises unless the ids are of one year with end >= start.
RangeAccepted(start_id, end_id) ==
    SplitId(start_id).year = SplitId(end_id).year /\ SplitId(end_id).num >= SplitId(start_id).num

\* Mutant of IterIds: the width of the start id is used.
IterIdsStartWidth(start_id, end_id) ==
    LET p1 == SplitId(start_id)
        p2 == SplitId(end_id)
    IN  [i \in 1..(p2.num - p1.num + 1) |-> FormatId(p1.year, p1.num + i - 1, p1.width)]

\* iter_ids
IterIds(start_id, end_id) ==
    LET p1 == SplitId(start_id)
        p2 == SplitId(end_id)
        width == Max(p1.width, p2.width)
    IN  [i \in 1..(p2.num - p1.num + 1) |-> FormatId(p1.year, p1.num + i - 1, width)]

\* What a call of iter_ids gives.
Returned(v) == [raised |-> FALSE, value |-> v]
RaisedError == [raised |-> TRUE, value |-> <<>>]

\* The valid ids given to the functions: years with and without zeros before
\* them, sequence texts with and without zeros before them, with and without
\* a line feed after them.
IdInputs ==
    { t \in { IdText(y, 4, n, w, lf) : y \in {24, 2023, 2024}, n \in 0..MaxSeq,
                                        w \in 1..MaxWidth, lf \in BOOLEAN } :
        t.width >= Digits(t.num) }

\* iter_ids(start_id, end_id) is called.
IterIdsCall ==
    /\ id_fn = "none"
    /\ id_fn' = "iter_ids"
    /\ \E s \in IdInputs, e \in IdInputs :
         /\ arg_start' = s
         /\ arg_end' = e
         /\ ret_iter' = IF RangeAccepted(s, e) THEN Returned(IterIds(s, e)) ELSE RaisedError
    /\ UNCHANGED <<arg_last, arg_steps, ret_sub, corVars, migVars, runsVars>>
    /\ UNCHANGED <<ingestVars, harvestVars, aggVars, watchVars, chanVars>>

\* subtract_steps(last_id, steps) is called.
SubtractStepsCall ==
    /\ id_fn = "none"
    /\ id_fn' = "subtract_steps"
    /\ \E l \in IdInputs, n \in 0..MaxSteps :
         /\ arg_last' = l
         /\ arg_steps' = n
         /\ ret_sub' = SubtractSteps(l, n)
    /\ UNCHANGED <<arg_start, arg_end, ret_iter, corVars, migVars, runsVars>>
    /\ UNCHANGED <<ingestVars, harvestVars, aggVars, watchVars, chanVars>>

NextIds ==
    \/ IterIdsCall
    \/ SubtractStepsCall

SpecIds == Init /\ [][NextIds]_vars

(***************************************************************************)
(* process_range_from_to: the id list of the run is built by iter_ids.     *)
(***************************************************************************)
\* The bounds a run is requested with.
RangeInputs == {IdText(2024, 4, 1, 1, FALSE), IdText(2024, 4, 2, 1, FALSE), IdText(2023, 4, 2, 1, FALSE)}

\* Lines 444-463: iter_ids in try; when it raises, the error is put as a
\* status event and the call goes on to publish no result; otherwise
\* process_ids_parallel is called with the list.
ProcessRange ==
    /\ opc = "idle"
    /\ id_fn = "none"
    /\ ~progress_on
    /\ PutNoWait(chan_full)
    /\ id_fn' = "iter_ids"
    /\ \E s \in RangeInputs, e \in RangeInputs :
         /\ arg_start' = s
         /\ arg_end' = e
         /\ IF RangeAccepted(s, e)
            THEN /\ ret_iter' = Returned(IterIds(s, e))
                 /\ ids' = Ids(Len(IterIds(s, e)))
                 /\ opc' = "called"
            ELSE /\ ret_iter' = RaisedError
                 /\ UNCHANGED ids
                 /\ opc' = "rejected"
    /\ UNCHANGED <<arg_last, arg_steps, ret_sub, corVars, migVars, runsVars>>
    /\ UNCHANGED <<vulnerabilities, chunks, joined, final_df, insert_error, undeleted>>
    /\ UNCHANGED <<workerVars, ingestVars, aggVars, watchVars, chanVars>>

\* Lines 447-453: {"result_path": None} is put on the status queue, with a
\* put that waits for room, and None is returned.
PublishRejected ==
    /\ opc = "rejected"
    /\ PutReturns(chan_full)
    /\ opc' = "returned"
    /\ UNCHANGED <<vulnerabilities, ids, chunks, joined, final_df, insert_error, undeleted>>
    /\ UNCHANGED <<workerVars, outerVars>>

\* iter_ids on its own, a run requested over a range, and the steps of the
\* run once process_ids_parallel is called.
NextRange ==
    \/ opc = "idle" /\ IterIdsCall
    \/ ProcessRange
    \/ PublishRejected
    \/ opc # "idle" /\ NextHarvest

SpecRange == Init /\ [][NextRange]_vars

(***************************************************************************)
(* reporting.py: the functions of the correlation.                         *)
(***************************************************************************)
ToSet(seq) == { seq[i] : i \in 1..Len(seq) }

\* A float that is the quotient of two integers, kept as the two integers.
Quotient(n, d) == [num |-> n, den |-> d]

\* Mutant of TokensSimilarity: the intersection over the smaller set.
TokensSimilarityMin(a, b) ==
    IF ToSet(a) = {} \/ ToSet(b) = {}
    THEN Quotient(0, 1)
    ELSE Quotient(Cardinality(ToSet(a) \cap ToSet(b)),
                  Min(Cardinality(ToSet(a)), Cardinality(ToSet(b))))

\* tokens_similarity
TokensSimilarity(a, b) ==
    IF ToSet(a) = {} \/ ToSet(b) = {}
    THEN Quotient(0, 1)
    ELSE Quotient(Cardinality(ToSet(a) \cap ToSet(b)),
                  Max(Cardinality(ToSet(a)), Cardinality(ToSet(b))))

\* a + (0,) * (max_len - len(a))
PadZeros(a, max_len) == a \o [i \in 1..(max_len - Len(a)) |-> 0]

\* aa < bb of two tuples of integers of one length.
RECURSIVE TupleLess(_, _)
TupleLess(aa, bb) ==
    IF aa = <<>> THEN FALSE
    ELSE IF Head(aa) # Head(bb) THEN Head(aa) < Head(bb)
    ELSE TupleLess(Tail(aa), Tail(bb))

\* Mutant of CompareVersions: the tuples are compared without the zeros.
CompareVersionsUnpadded(a, b) ==
    LET n == Min(Len(a), Len(b))
        aa == SubSeq(a, 1, n)
        bb == SubSeq(b, 1, n)
    IN  IF TupleLess(aa, bb) THEN -1
        ELSE IF TupleLess(bb, aa) THEN 1
        ELSE IF Len(a) < Len(b) THEN -1
        ELSE IF Len(a) > Len(b) THEN 1
        ELSE 0

\* compare_versions
CompareVersions(a, b) ==
    LET max_len == Max(Len(a), Len(b))
        aa == PadZeros(a, max_len)
        bb == PadZeros(b, max_len)
    IN  IF TupleLess(aa, bb) THEN -1
        ELSE IF TupleLess(bb, aa) THEN 1
        ELSE 0

\* A text is a sequence of pieces with blanks between them: a word, a run
\* of characters that are neither letters nor digits, or a version literal
\* (digit groups with dots between them).
Word(w) == [kind |-> "word", text |-> w, groups |-> <<>>]
Sym(c) == [kind |-> "sym", text |-> c, groups |-> <<>>]
Ver(groups) == [kind |-> "ver", text |-> "", groups |-> groups]

\* A text that is None, and the truth value of a text: None and '' are false.
NoText == <<[kind |-> "none", text |-> "", groups |-> <<>>]>>
GivenText(v) == v # NoText /\ v # <<>>
TextOr(v, d) == IF GivenText(v) THEN v ELSE d

\* str.lower() of a word.
Lower(w) ==
    CASE w = "Acrobat" -> "acrobat"
      [] w = "Reader" -> "reader"
      [] w = "Adobe" -> "adobe"
      [] w = "DC" -> "dc"
      [] w = "Before" -> "before"
      [] OTHER -> w

\* int() of a digit group.
IntOf(g) ==
    CASE g = "0" -> 0 [] g = "1" -> 1 [] g = "2" -> 2 [] g = "3" -> 3
      [] g = "5" -> 5 [] g = "7" -> 7 [] g = "07" -> 7

\* normalize_text: the lower-case runs of letters and digits.
RECURSIVE NormalizeText(_)
NormalizeText(text) ==
    IF text = <<>> THEN <<>>
    ELSE (CASE Head(text).kind = "word" -> <<Lower(Head(text).text)>>
            [] Head(text).kind = "ver" -> Head(text).groups
            [] OTHER -> <<>>) \o NormalizeText(Tail(text))

\* The digit groups of a text, in order.
RECURSIVE DigitGroups(_)
DigitGroups(text) ==
    IF text = <<>> THEN <<>>
    ELSE (IF Head(text).kind = "ver" THEN Head(text).groups ELSE <<>>) \o DigitGroups(Tail(text))

\* parse_version: the tuple of the digit groups, or None (here <<>>) for a
\* missing or empty text and for a text without digits.
ParseVersion(v) ==
    IF ~GivenText(v) THEN <<>>
    ELSE [i \in 1..Len(DigitGroups(v)) |-> IntOf(DigitGroups(v)[i])]

VersionConstraint(op, v1) == [op |-> op, v1 |-> v1]

IsWord(text, i, w) == i \in 1..Len(text) /\ text[i].kind = "word" /\ Lower(text[i].text) = w
IsVer(text, i) == i \in 1..Len(text) /\ text[i].kind = "ver"

\* Where the version literal of a rule's match at piece i stands, or 0 when
\* the rule does not match there.
VersionAt(text, rule, i) ==
    CASE rule = "before" ->
           IF IsWord(text, i, "before") /\ IsVer(text, i + 1) THEN i + 1
           ELSE IF IsWord(text, i, "prior") /\ IsWord(text, i + 1, "to") /\ IsVer(text, i + 2) THEN i + 2
           ELSE 0
      [] rule = "through" ->
           IF IsWord(text, i, "through") /\ IsVer(text, i + 1) THEN i + 1 ELSE 0
      [] rule = "operator" ->
           IF text[i].kind = "sym" /\ text[i].text \in {"<=", ">=", "<", ">"} /\ IsVer(text, i + 1)
           THEN i + 1 ELSE 0
      [] rule = "earlier" ->
           IF IsVer(text, i) /\ IsWord(text, i + 1, "and") /\ IsWord(text, i + 2, "earlier")
           THEN i ELSE 0
      [] rule = "version" ->
           IF (IsWord(text, i, "version") \/ IsWord(text, i, "versions")) /\ IsVer(text, i + 1)
           THEN i + 1 ELSE 0

OpOf(text, rule, i) ==
    CASE rule = "before" -> "<"
      [] rule = "through" -> "<="
      [] rule = "operator" -> text[i].text
      [] rule = "earlier" -> "<="
      [] rule = "version" -> "=="

\* re.finditer of one rule: its constraints from piece i on.
RECURSIVE RuleConstraints(_, _, _)
RuleConstraints(text, rule, i) ==
    IF i > Len(text) THEN <<>>
    ELSE (IF VersionAt(text, rule, i) # 0
          THEN <<VersionConstraint(OpOf(text, rule, i), ParseVersion(<<text[VersionAt(text, rule, i)]>>))>>
          ELSE <<>>) \o RuleConstraints(text, rule, i + 1)

\* extract_version_constraints
ExtractVersionConstraints(product) ==
    IF ~GivenText(product) THEN <<>>
    ELSE LET constraints ==
                 RuleConstraints(product, "before", 1) \o RuleConstraints(product, "through", 1)
                 \o RuleConstraints(product, "operator", 1) \o RuleConstraints(product, "earlier", 1)
             fallback == RuleConstraints(product, "version", 1)
         IN  IF constraints # <<>> THEN constraints
             ELSE IF fallback # <<>> THEN <<Head(fallback)>>
             ELSE <<>>

\* version_satisfies
VersionSatisfies(installed, cons) ==
    LET cmp_res == CompareVersions(installed, cons.v1)
    IN  CASE cons.op = "<" -> cmp_res = -1
          [] cons.op = "<=" -> cmp_res \in {-1, 0}
          [] cons.op = "==" -> cmp_res = 0
          [] cons.op = ">" -> cmp_res = 1
          [] cons.op = ">=" -> cmp_res \in {0, 1}
          [] OTHER -> FALSE

\* Mutant of VersionIsVulnerable: a constraint that is not satisfied decides.
VersionIsVulnerableStrict(installed_version, product_text) ==
    LET iv == ParseVersion(installed_version)
        constraints == ExtractVersionConstraints(product_text)
    IN  IF ~GivenText(installed_version) \/ iv = <<>> \/ constraints = <<>> THEN "unknown"
        ELSE IF \E i \in 1..Len(constraints) : ~VersionSatisfies(iv, constraints[i]) THEN "mismatch"
        ELSE "match"

\* version_is_vulnerable
VersionIsVulnerable(installed_version, product_text) ==
    LET iv == ParseVersion(installed_version)
        constraints == ExtractVersionConstraints(product_text)
    IN  IF ~GivenText(installed_version) THEN "unknown"
        ELSE IF iv = <<>> THEN "unknown"
        ELSE IF constraints = <<>> THEN "unknown"
        ELSE IF \E i \in 1..Len(constraints) : VersionSatisfies(iv, constraints[i]) THEN "match"
        ELSE IF \E i \in 1..Len(constraints) : ~VersionSatisfies(iv, constraints[i]) THEN "mismatch"
        ELSE "unknown"

\* (x or '').strip() of a text: blanks at its ends are dropped.
Blank == Sym(" ")

RECURSIVE LStripText(_)
LStripText(text) == IF text # <<>> /\ Head(text) = Blank THEN LStripText(Tail(text)) ELSE text

RECURSIVE RStripText(_)
RStripText(text) ==
    IF text # <<>> /\ text[Len(text)] = Blank THEN RStripText(SubSeq(text, 1, Len(text) - 1)) ELSE text

StripText(v) == RStripText(LStripText(TextOr(v, <<>>)))

\* A float that is at least 0.5.
AtLeastHalf(q) == 2 * q.num >= q.den

\* Mutant of NameTest: a similarity of exactly 0.5 does not pass.
NameTestAboveHalf(sw, v) ==
    LET prod_tokens == PyOr(NormalizeText(StripText(v.product)), NormalizeText(TextOr(v.title, <<>>)))
        q == TokensSimilarity(NormalizeText(StripText(sw.name)), prod_tokens)
    IN  prod_tokens # <<>> /\ 2 * q.num > q.den

\* Lines 252-259: the tokens of the product, or of the title when the product
\* gives none, and their similarity to the tokens of the software name.
NameTest(sw, v) ==
    LET prod_tokens == PyOr(NormalizeText(StripText(v.product)), NormalizeText(TextOr(v.title, <<>>)))
    IN  /\ prod_tokens # <<>>
        /\ AtLeastHalf(TokensSimilarity(NormalizeText(StripText(sw.name)), prod_tokens))

\* Mutant of VendorTest: the test is applied whenever the publisher is given.
VendorTestUnguarded(sw, v) ==
    StripText(sw.publisher) # <<>> =>
        AtLeastHalf(TokensSimilarity(NormalizeText(StripText(sw.publisher)),
                                     NormalizeText(StripText(v.vendor))))

\* Lines 261-266: the vendor against the publisher, when both are given.
VendorTest(sw, v) ==
    (StripText(v.vendor) # <<>> /\ StripText(sw.publisher) # <<>>) =>
        AtLeastHalf(TokensSimilarity(NormalizeText(StripText(sw.publisher)),
                                     NormalizeText(StripText(v.vendor))))

\* Mutant of PairVerdict: a pair of verdict mismatch is kept.
PairVerdictKeepsMismatch(sw, v) ==
    IF StripText(sw.name) = <<>> \/ ~NameTest(sw, v) \/ ~VendorTest(sw, v)
    THEN "skip"
    ELSE VersionIsVulnerable(sw.version, StripText(v.product))

\* Lines 238-273, one turn of the two loops: the pair is passed over, or it
\* is kept with its verdict.
PairVerdict(sw, v) ==
    IF StripText(sw.name) = <<>> THEN "skip"
    ELSE IF ~NameTest(sw, v) THEN "skip"
    ELSE IF ~VendorTest(sw, v) THEN "skip"
    ELSE IF VersionIsVulnerable(sw.version, StripText(v.product)) = "mismatch" THEN "skip"
    ELSE VersionIsVulnerable(sw.version, StripText(v.product))

\* The entries of one vulnerability: the kept software rows, in their order.
RECURSIVE SoftwareEntries(_, _)
SoftwareEntries(agent_soft, v) ==
    IF agent_soft = <<>> THEN <<>>
    ELSE (IF PairVerdict(Head(agent_soft), v) # "skip"
          THEN <<[row |-> Head(agent_soft), version_check |-> PairVerdict(Head(agent_soft), v)]>>
          ELSE <<>>) \o SoftwareEntries(Tail(agent_soft), v)

\* _load_data: soft_by_agent[agent_id], the rows of the agent in table order.
SoftByAgent(software_rows, agent_id) == SelectSeq(software_rows, LAMBDA r : r.agent_id = agent_id)

\* match_vulns_for_agent: the dictionary from the id of a vulnerability to
\* the vulnerability and its entries.
MatchVulnsForAgent(agent_id, software_rows, vulns) ==
    LET agent_soft == SoftByAgent(software_rows, agent_id)
        kept == { i \in 1..Len(vulns) : SoftwareEntries(agent_soft, vulns[i]) # <<>> }
    IN  [vid \in { vulns[i].id : i \in kept } |->
            LET i == CHOOSE j \in kept : vulns[j].id = vid
            IN  [vuln |-> vulns[i], software |-> SoftwareEntries(agent_soft, vulns[i])]]

\* The texts of the rows.
AcrobatReader == <<Word("Acrobat"), Word("Reader")>>
AdobeAcrobatReaderDC == <<Word("Adobe"), Word("Acrobat"), Word("Reader"), Word("DC")>>
V731 == Ver(<<"7", "3", "1">>)
V720 == Ver(<<"7", "2", "0">>)
V750 == Ver(<<"7", "5", "0">>)

\* The installed versions: missing, empty, without a digit, and versions
\* below, at and above 7.3.1.
InstalledVersions ==
    {NoText, <<>>, <<Word("beta")>>, <<V720>>, <<V750>>, <<V731>>, <<Ver(<<"7", "3">>)>>,
     <<Ver(<<"07", "3", "1", "0">>)>>, <<Word("build"), V720>>}

\* The product texts: without a constraint, with one constraint of each
\* rule, and with two constraints.
ProductTexts ==
    {NoText, <<>>, <<Blank>>, AdobeAcrobatReaderDC, <<V731>>,
     <<Word("before"), V731>>, <<Word("Before"), V731>>, <<Word("prior"), Word("to"), V731>>,
     <<Word("through"), V731>>, <<Sym("<="), V731>>, <<Sym(">="), V731>>, <<Sym("<"), V731>>,
     <<Sym(">"), V731>>, <<V731, Word("and"), Word("earlier")>>, <<Word("version"), V731>>,
     <<Word("before"), V731, Word("and"), Word("earlier")>>,
     <<Sym(">="), V720, Sym("<"), V731>>,
     <<Word("reader"), Word("before"), V731>>}

\* A row of agent_software and a row of vulnerabilities, as selected.
SoftwareRow(id, aid, name, version, publisher) ==
    [id |-> id, agent_id |-> aid, name |-> name, version |-> version, publisher |-> publisher]
VulnRow(id, vendor, product, title) ==
    [id |-> id, vendor |-> vendor, product |-> product, title |-> title]

\* The name, version and publisher of the software rows: a name that shares
\* half of the tokens of a product, with each verdict, and names and
\* publishers that are missing or blank.
SoftwareShapes ==
    {<<AcrobatReader, <<V720>>, <<Word("Adobe")>>>>,
     <<AcrobatReader, NoText, <<Word("Other")>>>>,
     <<<<Word("Reader"), Ver(<<"7">>)>>, <<V720>>, NoText>>,
     <<<<Word("Reader"), Ver(<<"7">>)>>, <<V750>>, <<Blank>>>>,
     <<<<Blank>>, <<V720>>, <<Word("Adobe")>>>>,
     <<NoText, <<V750>>, NoText>>}

SoftwareRows(id) == { SoftwareRow(id, a, r[1], r[2], r[3]) : a \in AgentIds, r \in SoftwareShapes }

\* The vendor, product and title of the vulnerability rows: a product with
\* and without a constraint, a product without a token, a missing product
\* with and without a title, and vendors that are missing, blank or without
\* a token.
VulnShapes ==
    {<<<<Word("Adobe")>>, AdobeAcrobatReaderDC, NoText>>,
     <<NoText, <<Word("Reader"), Sym("<"), V731>>, NoText>>,
     <<<<Sym("-")>>, <<Word("Reader"), Sym("<"), V731>>, AcrobatReader>>,
     <<<<Blank>>, NoText, AcrobatReader>>,
     <<<<Word("Adobe")>>, <<Sym("-")>>, AcrobatReader>>,
     <<<<Word("Adobe")>>, NoText, NoText>>}

VulnRows(id) == { VulnRow(id, r[1], r[2], r[3]) : r \in VulnShapes }

\* The token lists and the integer tuples the functions are applied to.
TokenLists == SeqsUpTo({"acrobat", "reader", "adobe"}, MaxTokens)
VersionTuples == SeqsUpTo(0..MaxPart, MaxVerLen) \cup {<<1, 2>>, <<1, 2, 0>>}

\* tokens_similarity(a, b) and tokens_similarity(b, a) are called.
TokensSimilarityCall ==
    /\ cor_fn = "none"
    /\ cor_fn' = "tokens_similarity"
    /\ \E a \in TokenLists, b \in TokenLists :
         /\ cor_args' = [a |-> a, b |-> b]
         /\ cor_ret' = [ab |-> TokensSimilarity(a, b), ba |-> TokensSimilarity(b, a)]
    /\ UNCHANGED <<idVars, migVars, runsVars, ingestVars, harvestVars, aggVars, watchVars, chanVars>>

\* compare_versions is called on the pairs of three tuples.
CompareVersionsCall ==
    /\ cor_fn = "none"
    /\ cor_fn' = "compare_versions"
    /\ \E a \in VersionTuples, b \in VersionTuples, c \in VersionTuples :
         /\ cor_args' = [a |-> a, b |-> b, c |-> c]
         /\ cor_ret' = [ab |-> CompareVersions(a, b), ba |-> CompareVersions(b, a),
                        bc |-> CompareVersions(b, c), ac |-> CompareVersions(a, c)]
    /\ UNCHANGED <<idVars, migVars, runsVars, ingestVars, harvestVars, aggVars, watchVars, chanVars>>

\* version_is_vulnerable(installed_version, product_text) is called.
VersionIsVulnerableCall ==
    /\ cor_fn = "none"
    /\ cor_fn' = "version_is_vulnerable"
    /\ \E installed \in InstalledVersions, product \in ProductTexts :
         /\ cor_args' = [installed_version |-> installed, product_text |-> product]
         /\ cor_ret' = VersionIsVulnerable(installed, product)
    /\ UNCHANGED <<idVars, migVars, runsVars, ingestVars, harvestVars, aggVars, watchVars, chanVars>>

\* match_vulns_for_agent is called for an agent with the rows of the two
\* tables; the ids of the rows are those of their tables, 1, 2, ...
MatchVulnsForAgentCall ==
    /\ cor_fn = "none"
    /\ cor_fn' = "match_vulns_for_agent"
    /\ \E a \in AgentIds, m \in 0..MaxSoft, n \in 0..MaxVulns :
         \E software_rows \in { f \in [1..m -> UNION { SoftwareRows(i) : i \in 1..m }] :
                                    \A i \in 1..m : f[i].id = i },
            vulns \in { f \in [1..n -> UNION { VulnRows(i) : i \in 1..n }] :
                             \A i \in 1..n : f[i].id = i } :
              /\ cor_args' = [agent_id |-> a, software_rows |-> software_rows, vulns |-> vulns]
              /\ cor_ret' = MatchVulnsForAgent(a, software_rows, vulns)
    /\ UNCHANGED <<idVars, migVars, runsVars, ingestVars, harvestVars, aggVars, watchVars, chanVars>>

\* _chunkify(items, n_chunks) is called as _start_workers and
\* process_ids_parallel call it, with n_chunks = max(1, workers).
ChunkifyCall ==
    /\ cor_fn = "none"
    /\ cor_fn' = "_chunkify"
    /\ \E len \in 0..MaxItems, workers \in 1..MaxChunks :
         /\ cor_args' = [items |-> Ids(len), n_chunks |-> Max(1, workers)]
         /\ cor_ret' = Chunkify(Ids(len), Max(1, workers))
    /\ UNCHANGED <<idVars, migVars, runsVars, ingestVars, harvestVars, aggVars, watchVars, chanVars>>

NextChunkify == ChunkifyCall

SpecChunkify == Init /\ [][NextChunkify]_vars

\* extract_version_constraints(product) is called.
ExtractVersionConstraintsCall ==
    /\ cor_fn = "none"
    /\ cor_fn' = "extract_version_constraints"
    /\ \E product \in ProductTexts :
         /\ cor_args' = [product |-> product]
         /\ cor_ret' = ExtractVersionConstraints(product)
    /\ UNCHANGED <<idVars, migVars, runsVars, ingestVars, harvestVars, aggVars, watchVars, chanVars>>

NextCorrelate ==
    \/ TokensSimilarityCall
    \/ CompareVersionsCall
    \/ VersionIsVulnerableCall
    \/ ExtractVersionConstraintsCall
    \/ MatchVulnsForAgentCall

SpecCorrelate == Init /\ [][NextCorrelate]_vars

(***************************************************************************)
(* db.py: init_db and the migration of the vulnerabilities table.          *)
(***************************************************************************)
DESIRED_COLUMNS ==
    <<"id", "source", "bdu_id", "cve", "cvss", "severity", "vendor", "product",
      "type", "title", "url", "publication_date", "raw_date", "created_date">>

Table(cols, rs) == [exists |-> TRUE, cols |-> cols, rows |-> rs]

\* The value of a column of a row, and NULL.
Null == <<>>
Value(col, r) == <<col, r>>

\* The column sets of earlier versions: the target itself, renamed date
\* columns, both names of a date column, no source column, another order
\* with a column the target does not have, and no id column.
EarlierColumns ==
    {DESIRED_COLUMNS,
     <<"id", "source", "title", "published", "created_at">>,
     <<"id", "source", "publication_date", "published">>,
     <<"id", "bdu_id", "title">>,
     <<"source", "id", "extra">>,
     <<"source", "url">>}

\* Row r of a table of an earlier version; its source may be NULL when the
\* earlier version did not declare the column NOT NULL.
EarlierRow(cols, r, source_null) ==
    [c \in ToSet(cols) |-> IF c = "source" /\ source_null THEN Null ELSE Value(c, r)]

EarlierTables ==
    { Table(cols, [r \in 1..n |-> EarlierRow(cols, r, r \in nulls)]) :
          cols \in EarlierColumns, n \in 0..MaxOldRows, nulls \in SUBSET (1..MaxOldRows) }

\* Lines 107-140: the column of vulnerabilities_old that is selected for a
\* column of the target, or "NULL".
SelectPart(col, old_cols) ==
    IF col \in old_cols THEN col
    ELSE IF col = "publication_date" /\ "published" \in old_cols THEN "published"
    ELSE IF col = "created_date" /\ "created_at" \in old_cols THEN "created_at"
    ELSE "NULL"

\* The rows of SELECT ... FROM vulnerabilities_old.
SelectRows(old) ==
    [r \in 1..Len(old.rows) |->
        [c \in ToSet(DESIRED_COLUMNS) |->
            IF SelectPart(c, ToSet(old.cols)) = "NULL" THEN Null
            ELSE old.rows[r][SelectPart(c, ToSet(old.cols))]]]

\* INSERT of the selected rows: a NULL id is given the rowid, and a NULL
\* source fails the NOT NULL constraint of the target.
WithRowIds(rs) ==
    [r \in 1..Len(rs) |-> IF rs[r]["id"] = Null THEN [rs[r] EXCEPT !["id"] = <<"rowid", r>>] ELSE rs[r]]
NotNullFails(rs) == \E r \in 1..Len(rs) : rs[r]["source"] = Null

MigrateStep(pcn, new, old, pending) ==
    /\ mig_pc' = pcn
    /\ mig_new' = new
    /\ mig_old' = old
    /\ mig_pending' = pending
    /\ UNCHANGED <<mig_before, mig_calls>>
    /\ UNCHANGED <<idVars, corVars, runsVars, ingestVars, harvestVars, aggVars, watchVars, chanVars>>

\* Lines 199-205 and 94-99: init_db is called on a database file.  A missing
\* table or a table without columns is created, a table with the target
\* columns is left alone, any other table is migrated.
InitDbCall ==
    /\ mig_pc \in {"none", "returned", "raised", "killed"}
    /\ mig_calls < MaxInits
    /\ mig_calls' = mig_calls + 1
    /\ \E found \in IF mig_pc = "none" THEN EarlierTables \cup {NoTable} ELSE {mig_new} :
         /\ mig_before' = IF mig_pc = "none" THEN found ELSE mig_before
         /\ mig_new' = found
         /\ mig_pc' = IF ~found.exists \/ found.cols = <<>> THEN "create_only"
                      ELSE IF found.cols # DESIRED_COLUMNS THEN "rename"
                      ELSE "returned"
    /\ UNCHANGED <<mig_old, mig_pending>>
    /\ UNCHANGED <<idVars, corVars, runsVars, ingestVars, harvestVars, aggVars, watchVars, chanVars>>

\* _create_fresh_schema when there is no table: CREATE TABLE IF NOT EXISTS.
CreateOnly ==
    /\ mig_pc = "create_only"
    /\ MigrateStep("returned", Table(DESIRED_COLUMNS, <<>>), mig_old, <<>>)

\* Line 101: ALTER TABLE vulnerabilities RENAME TO vulnerabilities_old, which
\* fails when a table of that name is left from an earlier call.
Rename ==
    /\ mig_pc = "rename"
    /\ IF mig_old.exists
       THEN MigrateStep("raised", mig_new, mig_old, <<>>)
       ELSE MigrateStep("create", NoTable, mig_new, <<>>)

\* Line 102: _create_fresh_schema, committed.
CreateFresh ==
    /\ mig_pc = "create"
    /\ MigrateStep("insert", Table(DESIRED_COLUMNS, <<>>), mig_old, <<>>)

\* Lines 142-151: INSERT INTO vulnerabilities ... SELECT ... FROM
\* vulnerabilities_old; an IntegrityError leaves init_db, whose finally
\* block closes the connection.
InsertSelect ==
    /\ mig_pc = "insert"
    /\ IF NotNullFails(SelectRows(mig_old))
       THEN MigrateStep("raised", mig_new, mig_old, <<>>)
       ELSE MigrateStep("commit", mig_new, mig_old, WithRowIds(SelectRows(mig_old)))

\* Line 152: conn.commit().
CommitCopy ==
    /\ mig_pc = "commit"
    /\ MigrateStep("drop", [mig_new EXCEPT !.rows = mig_pending], mig_old, <<>>)

\* Lines 153-154: DROP TABLE vulnerabilities_old and commit.
DropOld ==
    /\ mig_pc = "drop"
    /\ MigrateStep("returned", mig_new, NoTable, <<>>)

\* The process ends while init_db is at a statement: what is not committed
\* is rolled back.
Kill ==
    /\ mig_pc \in {"create_only", "rename", "create", "insert", "commit", "drop"}
    /\ MigrateStep("killed", mig_new, mig_old, <<>>)

NextMigrate ==
    \/ InitDbCall
    \/ CreateOnly
    \/ Rename
    \/ CreateFresh
    \/ InsertSelect
    \/ CommitCopy
    \/ DropOld
    \/ Kill

SpecMigrate == Init /\ [][NextMigrate]_vars

(***************************************************************************)
(* autonomous.py: autonomous_loop, the watcher.                            *)
(***************************************************************************)
U1 == <<"u", "1">>
U2 == <<"u", "2">>
U1Padded == <<"u", "1", " ">>

\* The values of interval_hours; 0 is below the one hour the sleep lasts at least.
Intervals == 0..MaxInterval

\* What get_latest_from_news_count gives: it raises, or it returns news_url
\* and count, either of which may be missing.
ProbeResults ==
    {News(TRUE, None, CountNone)} \cup
    { News(FALSE, u, c) : u \in {None, <<>>, U1, U2, U1Padded},
                          c \in {CountNone} \cup { CountOf(k) : k \in (-1)..MaxCount } }

\* What get_latest_bdu_id gives: it raises, or it returns nothing, a text
\* that is no id, or an id.
LatestResults ==
    {Latest("raised", NoLatest.id), Latest("none", NoLatest.id), Latest("malformed", NoLatest.id)} \cup
    { Latest("id", v) : v \in {VulnId(2024, 1, 1), VulnId(2024, 2, 3), VulnId(2024, 10, 2)} }

\* news.get('count') or 0
CountOr0(c) == IF c.int /\ c.n # 0 THEN c.n ELSE 0

\* Mutant of ReadStamp: the file's content as it is.
ReadStampRaw(file) == IF file = NoFile THEN None ELSE file

\* stamp.read_text(encoding='utf-8').strip() if stamp.exists() else None
ReadStamp(file) == IF file = NoFile THEN None ELSE Strip(file)

\* Mutant of AfterHarvest: the pointer is written only after records were stored.
AfterHarvestStored(result) == IF result = "stored" THEN "write" ELSE "sleep"

\* Where autonomous_loop goes when process_range_from_to has returned.
AfterHarvest(result) == "write"

\* How a harvest invocation returns: the range was rejected, or the run
\* stored nothing (all ids reserved or not found), or its insert raised, or
\* records were stored.
HarvestResults(range) ==
    IF range = <<>> THEN {"rejected"} ELSE {"nothing", "insert_failed", "stored"}

RecordsOf(range) == [i \in 1..Len(range) |-> Record(range[i])]

\* Lines 33-43 and 63-64: the probe, the checks of its result and the
\* comparison with the checkpoint.
Probe ==
    /\ apc = "probe"
    /\ npolls < MaxPolls
    /\ npolls' = npolls + 1
    /\ IF npolls = 0
       THEN interval_hours' \in Intervals     \* the argument of the call of autonomous_loop
       ELSE UNCHANGED interval_hours
    /\ UNCHANGED slept
    /\ \E r \in ProbeResults :
         /\ news' = r
         /\ IF r.raised
            THEN /\ emitted' = "warn_error"
                 /\ apc' = "sleep"
            ELSE IF ~Truthy(r.news_url) \/ CountOr0(r.count) <= 0
            THEN /\ emitted' = "warn"
                 /\ apc' = "sleep"
            ELSE IF ReadStamp(last_seen_news) # r.news_url
            THEN /\ emitted' = "none"
                 /\ apc' = "lookup"
            ELSE /\ emitted' = "no_news"
                 /\ apc' = "sleep"
    /\ latest' = NoLatest
    /\ harvest_result' = "none"
    /\ UNCHANGED <<last_seen_news, requested>>
    /\ UNCHANGED <<ingestVars, fnVars, harvestVars, aggVars, chanVars>>

\* Lines 44-60: the latest id, the first id, and the call of
\* process_range_from_to, which builds its id list with iter_ids.
Lookup ==
    /\ apc = "lookup"
    /\ \E l \in LatestResults :
         /\ latest' = l
         /\ IF l.kind # "id"
            THEN /\ emitted' = "warn_error"
                 /\ apc' = "sleep"
                 /\ UNCHANGED requested
            ELSE LET first == SubtractSteps(l.id, CountOr0(news.count) - 1)
                 IN  /\ emitted' = "range"
                     /\ apc' = "harvest"
                     /\ requested' = Append(requested,
                                            IF RangeAccepted(first, l.id)
                                            THEN IterIds(first, l.id) ELSE <<>>)
    /\ UNCHANGED <<last_seen_news, news, harvest_result, npolls, interval_hours, slept>>
    /\ UNCHANGED <<ingestVars, fnVars, harvestVars, aggVars, chanVars>>

\* process_range_from_to returns, its result published on the status queue.
HarvestReturn ==
    /\ apc = "harvest"
    /\ PutReturns(chan_full)
    /\ \E result \in HarvestResults(requested[Len(requested)]) :
         /\ harvest_result' = result
         /\ apc' = AfterHarvest(result)
         /\ vulnerabilities' =
                IF result = "stored"
                THEN InsertVulnerabilities(vulnerabilities, RecordsOf(requested[Len(requested)]), "fstek")
                ELSE vulnerabilities
    /\ UNCHANGED <<last_seen_news, news, latest, requested, emitted, npolls, interval_hours, slept>>
    /\ UNCHANGED <<opc, ids, chunks, joined, final_df, insert_error, undeleted>>
    /\ UNCHANGED <<workerVars, ingestVars, fnVars, aggVars, chanVars>>

\* Mutant of HarvestRaises: the pointer is written though the harvest raised.
HarvestRaisesAdvances ==
    /\ apc = "harvest"
    /\ emitted' = "warn_error"
    /\ apc' = "sleep"
    /\ last_seen_news' = news.news_url
    /\ UNCHANGED <<news, latest, requested, harvest_result, npolls, interval_hours, slept>>
    /\ UNCHANGED <<ingestVars, fnVars, harvestVars, aggVars, chanVars>>

\* process_range_from_to raises (init_db, the start of a process): lines 68-69.
HarvestRaises ==
    /\ apc = "harvest"
    /\ emitted' = "warn_error"
    /\ apc' = "sleep"
    /\ UNCHANGED <<last_seen_news, news, latest, requested, harvest_result, npolls, interval_hours, slept>>
    /\ UNCHANGED <<ingestVars, fnVars, harvestVars, aggVars, chanVars>>

\* Line 62, stamp.write_text: the file is opened for writing, which creates
\* it or cuts it to nothing; an OSError leaves it as it was.
WriteOpen ==
    /\ apc = "write"
    /\ \E ok \in BOOLEAN :
         IF ok
         THEN /\ last_seen_news' = <<>>
              /\ apc' = "writing"
              /\ UNCHANGED emitted
         ELSE /\ emitted' = "warn_error"
              /\ apc' = "sleep"
              /\ UNCHANGED last_seen_news
    /\ UNCHANGED <<news, latest, requested, harvest_result, npolls, interval_hours, slept>>
    /\ UNCHANGED <<ingestVars, fnVars, harvestVars, aggVars, chanVars>>

\* Line 62, stamp.write_text: news_url is written and the file closed; an
\* OSError leaves the file cut.
WriteData ==
    /\ apc = "writing"
    /\ \E ok \in BOOLEAN :
         IF ok
         THEN /\ last_seen_news' = news.news_url
              /\ UNCHANGED emitted
         ELSE /\ emitted' = "warn_error"
              /\ UNCHANGED last_seen_news
    /\ apc' = "sleep"
    /\ UNCHANGED <<news, latest, requested, harvest_result, npolls, interval_hours, slept>>
    /\ UNCHANGED <<ingestVars, fnVars, harvestVars, aggVars, chanVars>>

\* Lines 65-67: KeyboardInterrupt in the body of the loop.
InterruptBody ==
    /\ apc \in {"probe", "lookup", "harvest", "write", "writing"}
    /\ emitted' = "stopped"
    /\ apc' = "stopped"
    /\ UNCHANGED <<last_seen_news, news, latest, requested, harvest_result, npolls, interval_hours, slept>>
    /\ UNCHANGED <<ingestVars, fnVars, harvestVars, aggVars, chanVars>>

\* Lines 75-77: KeyboardInterrupt in the sleep.
InterruptSleep ==
    /\ apc = "sleep"
    /\ emitted' = "stopped"
    /\ apc' = "stopped"
    /\ UNCHANGED <<last_seen_news, news, latest, requested, harvest_result, npolls, interval_hours, slept>>
    /\ UNCHANGED <<ingestVars, fnVars, harvestVars, aggVars, chanVars>>

\* Mutant of SleepHours: the interval as it is given.
SleepHoursUnfloored(h) == h

\* Line 72, max(1, int(interval_hours)): the hours of one sleep.
SleepHours(h) == Max(1, h)

\* Lines 73-74: one more hour of time.sleep(60) calls is over.
SleepHour ==
    /\ apc = "sleep"
    /\ slept < SleepHours(interval_hours)
    /\ slept' = slept + 1
    /\ UNCHANGED <<apc, last_seen_news, news, latest, requested, harvest_result, emitted, npolls,
                   interval_hours>>
    /\ UNCHANGED <<ingestVars, fnVars, harvestVars, aggVars, chanVars>>

\* Lines 71-74: the sleep is over.
Wake ==
    /\ apc = "sleep"
    /\ slept >= SleepHours(interval_hours)
    /\ apc' = "probe"
    /\ slept' = 0
    /\ UNCHANGED <<last_seen_news, news, latest, requested, harvest_result, emitted, npolls,
                   interval_hours>>
    /\ UNCHANGED <<ingestVars, fnVars, harvestVars, aggVars, chanVars>>

NextWatcher ==
    \/ Probe
    \/ Lookup
    \/ HarvestReturn
    \/ HarvestRaises
    \/ WriteOpen
    \/ WriteData
    \/ InterruptBody
    \/ InterruptSleep
    \/ SleepHour
    \/ Wake

SpecWatcher == Init /\ [][NextWatcher]_vars

(***************************************************************************)
(* The Store under harvest runs, news inserts and agent reports.           *)
(***************************************************************************)
\* Rows a news scrape hands to insert_vulnerabilities: a page the harvest
\* knows too, and two rows that carry a technical flag, one of them set.
NewsRecords ==
    { [bdu_id |-> 5, link |-> Link(1, FALSE, FALSE)],
      [bdu_id |-> 6, link |-> Link(3, FALSE, FALSE), should_skip |-> FALSE],
      [bdu_id |-> 7, link |-> Link(3, TRUE, FALSE), should_skip |-> TRUE] }

\* The final tables _build_final_dataframe gives for the shard sets.
FinalTables == { BuildFinal(parts) : parts \in ShardSets }

\* The calls of insert_vulnerabilities so far.
Inserts == IF cor_fn = "none" THEN 0 ELSE cor_args.n

\* insert_vulnerabilities(df, source) as a transaction: executemany and commit,
\* or an exception before the commit, which leaves the table as it was.
InsertCall(df, source) ==
    /\ cor_fn \in {"none", "insert_vulnerabilities"}
    /\ Inserts < MaxInserts
    /\ cor_fn' = "insert_vulnerabilities"
    /\ cor_args' = [df |-> df, source |-> source, n |-> Inserts + 1]
    /\ \E ok \in BOOLEAN :
         /\ cor_ret' = [ok |-> ok, inserted |-> IF ok THEN Len(Unflagged(df)) ELSE 0]
         /\ vulnerabilities' =
                IF ok THEN InsertVulnerabilities(vulnerabilities, df, source)
                ELSE vulnerabilities

\* process_ids_parallel, steps 2 to 4: the part files the workers of the run
\* left are combined and deduplicated and the final table is inserted.
CollectInsert ==
    /\ \E final \in FinalTables :
         /\ final # <<>>
         /\ InsertCall(final, "fstek")
    /\ UNCHANGED <<opc, ids, chunks, joined, final_df, insert_error, undeleted>>
    /\ UNCHANGED <<workerVars, ingestVars, idVars, migVars, runsVars, aggVars, watchVars, chanVars>>

\* app_unified.py 513-522: the table of a news scrape, when it is not empty,
\* is inserted with source 'news'.
NewsInsert ==
    /\ \E df \in SeqsUpTo(NewsRecords, MaxNews) :
         /\ df # <<>>
         /\ InsertCall(df, "news")
    /\ UNCHANGED <<opc, ids, chunks, joined, final_df, insert_error, undeleted>>
    /\ UNCHANGED <<workerVars, ingestVars, idVars, migVars, runsVars, aggVars, watchVars, chanVars>>

NextStore ==
    \/ CollectInsert
    \/ NewsInsert
    \/ Receive("t1")
    \/ Upsert("t1")
    \/ Delete("t1")
    \/ InsertRows("t1")
    \/ Commit("t1")
    \/ DbError("t1")

SpecStore == Init /\ [][NextStore]_vars

(***************************************************************************)
(* Two harvest runs in one results directory.                              *)
(***************************************************************************)
\* The ids of the two runs: no id is in both.
RunIds(r) ==
    IF r = "watcher" THEN SubSeq(Ids(MaxIds), 1, 2) ELSE SubSeq(Ids(MaxIds), 3, MaxIds)

\* sorted(glob(RESULTS_DIR / "part_*.csv") + ...): every part file of the
\* directory, in the order of the paths (here: of the processes).
Globbed(dir) ==
    LET order == << <<"ondemand", 1>>, <<"ondemand", 2>>, <<"watcher", 1>>, <<"watcher", 2>> >>
        found == SelectSeq(order, LAMBDA p : p \in Pids /\ dir[p] # <<>>)
    IN  [i \in 1..Len(found) |-> dir[found[i]]]

\* process_ids_parallel is called: the ids are chunked for the workers.
RunStart(r) ==
    /\ runs[r].pc = "idle"
    /\ \E workers \in 1..MaxWorkers :
         runs' = [runs EXCEPT ![r] = [@ EXCEPT !.pc = "workers",
                                               !.chunks = Chunkify(RunIds(r), Max(1, workers))]]
    /\ UNCHANGED shard_dir
    /\ UNCHANGED <<idVars, corVars, migVars, ingestVars, harvestVars, aggVars, watchVars, chanVars>>

\* worker_loop and _flush_parts: the k-th process of the run has parsed its
\* chunk and writes part_<pid>.csv.
RunFlush(r, k) ==
    /\ runs[r].pc = "workers"
    /\ k \in 1..Len(runs[r].chunks)
    /\ k \notin runs[r].flushed
    /\ shard_dir' = [shard_dir EXCEPT ![<<r, k>>] = RecordsOf(runs[r].chunks[k])]
    /\ runs' = [runs EXCEPT ![r] = [@ EXCEPT !.flushed = @ \cup {k}]]
    /\ UNCHANGED <<idVars, corVars, migVars, ingestVars, harvestVars, aggVars, watchVars, chanVars>>

\* The processes are joined, the part files globbed and the final table built.
RunCollect(r) ==
    /\ runs[r].pc = "workers"
    /\ runs[r].flushed = 1..Len(runs[r].chunks)
    /\ LET final == BuildFinal(Globbed(shard_dir)) IN
         runs' = [runs EXCEPT ![r] = [@ EXCEPT !.final = final,
                                               !.pc = IF final = <<>> THEN "cleanup" ELSE "insert"]]
    /\ UNCHANGED shard_dir
    /\ UNCHANGED <<idVars, corVars, migVars, ingestVars, harvestVars, aggVars, watchVars, chanVars>>

\* insert_vulnerabilities(final_df, source="fstek"), committed or raised.
RunInsert(r) ==
    /\ runs[r].pc = "insert"
    /\ \E ok \in BOOLEAN :
         /\ vulnerabilities' =
                IF ok THEN InsertVulnerabilities(vulnerabilities, runs[r].final, "fstek")
                ELSE vulnerabilities
         /\ runs' = [runs EXCEPT ![r] = [@ EXCEPT !.pc = "cleanup",
                                                   !.inserted = IF ok THEN "ok" ELSE "raised"]]
    /\ UNCHANGED shard_dir
    /\ UNCHANGED <<opc, ids, chunks, joined, final_df, insert_error, undeleted>>
    /\ UNCHANGED <<workerVars, idVars, corVars, migVars, ingestVars, aggVars, watchVars, chanVars>>

\* _cleanup_temp_parts: every part file of the directory is unlinked; a file
\* whose unlink raises OSError stays (here: the files of locked).
RunCleanup(r) ==
    /\ runs[r].pc = "cleanup"
    /\ \E locked \in SUBSET Pids :
         shard_dir' = [p \in Pids |-> IF p \in locked THEN shard_dir[p] ELSE <<>>]
    /\ runs' = [runs EXCEPT ![r] = [@ EXCEPT !.pc = "done"]]
    /\ UNCHANGED <<idVars, corVars, migVars, ingestVars, harvestVars, aggVars, watchVars, chanVars>>

NextTwoRuns ==
    \/ \E r \in Runs : RunStart(r)
    \/ \E r \in Runs, k \in Slots : RunFlush(r, k)
    \/ \E r \in Runs : RunCollect(r)
    \/ \E r \in Runs : RunInsert(r)
    \/ \E r \in Runs : RunCleanup(r)

SpecTwoRuns == Init /\ [][NextTwoRuns]_vars

(***************************************************************************)
(* Properties of the report endpoint.                                      *)
(***************************************************************************)
Done(t) == pc[t] = "done"

AllSpaces(s) == \A i \in 1..Len(s) : s[i] = " "

\* s without its leading and trailing spaces.
Trimmed(s) ==
    IF AllSpaces(s) THEN <<>>
    ELSE LET ix == { i \in 1..Len(s) : s[i] # " " }
             lo == CHOOSE i \in ix : \A j \in ix : i <= j
             hi == CHOOSE i \in ix : \A j \in ix : j <= i
         IN  SubSeq(s, lo, hi)

\* A version or publisher as stored: trimmed, and absent when nothing is left.
TrimmedOrNone(v) == IF v = None \/ AllSpaces(v) THEN None ELSE Trimmed(v)

NameBlank(n) == n = None \/ AllSpaces(n)

\* The (name, version, publisher) of the stored software rows of agent a.
RECURSIVE Triples(_, _)
Triples(tbl, a) ==
    IF tbl = <<>> THEN <<>>
    ELSE (IF Head(tbl).agent_id = a
          THEN << <<Head(tbl).name, Head(tbl).version, Head(tbl).publisher>> >>
          ELSE <<>>) \o Triples(Tail(tbl), a)
SoftwareOf(a) == Triples(agent_software, a)

\* A reported list without its blank-named entries, as reported.
RECURSIVE ReportedRaw(_)
ReportedRaw(items) ==
    IF items = <<>> THEN <<>>
    ELSE (IF NameBlank(Head(items).name) THEN <<>>
          ELSE << <<Head(items).name, Head(items).version, Head(items).publisher>> >>)
         \o ReportedRaw(Tail(items))

\* A reported list without its blank-named entries, each field trimmed.
RECURSIVE ReportedTrimmed(_)
ReportedTrimmed(items) ==
    IF items = <<>> THEN <<>>
    ELSE (IF NameBlank(Head(items).name) THEN <<>>
          ELSE << <<Trimmed(Head(items).name), TrimmedOrNone(Head(items).version),
                    TrimmedOrNone(Head(items).publisher)>> >>)
         \o ReportedTrimmed(Tail(items))

RowsOfAgent(a) == { r \in agents : r.agent_id = a }
HostOf(r) == <<r.hostname, r.os_type, r.os_release, r.os_version, r.architecture>>
ReportedHost(p) ==
    IF p.os_info.kind = "dict"
    THEN <<p.os_info.hostname, p.os_info.os_type, p.os_info.os_release,
           p.os_info.os_version, p.os_info.architecture>>
    ELSE <<None, None, None, None, None>>

\* C1: a request answered with one of the error kinds has changed neither the
\* agents table nor the agent_software table.
C1_ErrorWritesNothing ==
    \A t \in Threads : Done(t) /\ resp[t].kind \in ErrorKinds => ~wrote[t]

\* C1 witness: a write failed at its commit, after the upsert, the delete and
\* the insert, while the store holds an earlier report.
C1_Witness ==
    \E t \in Threads :
        /\ Done(t) /\ resp[t] = Resp("db_error", "commit")
        /\ agents # {} /\ agent_software # <<>>

\* C2 as claimed: the stored software of an agent is the list of its latest
\* accepted report without the blank-named entries, as reported.
C2_Original ==
    \A a \in AgentIds :
        accepted[a].n > 0 => SoftwareOf(a) = ReportedRaw(accepted[a].last.software.items)

\* C2 amended: the stored software of an agent is the list of its latest
\* accepted report without the blank-named entries, with name, version and
\* publisher trimmed and an empty version or publisher stored as absent;
\* nothing of an earlier report remains.
C2_LatestListTrimmed ==
    \A a \in AgentIds :
        accepted[a].n > 0 => SoftwareOf(a) = ReportedTrimmed(accepted[a].last.software.items)

\* C2 witness: a second accepted report of an agent whose list differs from the
\* first one's, both with stored entries.
C2_Witness ==
    /\ accepted[A1].n >= 2
    /\ accepted[A1].last.software = SoftList(<<ItemPadded, ItemBlank, ItemB>>)
    /\ accepted[A1].prev.software = SoftList(<<ItemA>>)
    /\ SoftwareOf(A1) # <<>>

\* C3: in every stored state, under every interleaving of the request threads,
\* the software rows and the host fields of an agent are those of one and the
\* same accepted report (the one committed last), never a mixture of two.
C3_OneReportWins ==
    \A a \in AgentIds :
        accepted[a].n > 0 =>
            /\ SoftwareOf(a) = ReportedTrimmed(accepted[a].last.software.items)
            /\ \A r \in RowsOfAgent(a) : HostOf(r) = ReportedHost(accepted[a].last)
            /\ RowsOfAgent(a) # {}

\* C3 witness: two reports for the same agent with different hosts and lists are
\* in their writes at the same time, one holding the uncommitted replacement.
C3_Witness ==
    /\ pc["t1"] = "commit" /\ pc["t2"] = "upsert"
    /\ args["t1"].agent_id = args["t2"].agent_id
    /\ args["t1"].hostname # args["t2"].hostname
    /\ args["t1"].software_list # args["t2"].software_list
    /\ tx["t1"].agent_software # <<>>

\* C4: every stored software row has an agents row with its agent_id.
C4_NoOrphans ==
    \A i \in 1..Len(agent_software) : RowsOfAgent(agent_software[i].agent_id) # {}

\* C4 witness: a write failed between the delete and the insert, or at the
\* commit, and the store holds software rows.
C4_Witness ==
    \E t \in Threads :
        /\ Done(t) /\ resp[t].kind = "db_error" /\ resp[t].at \in {"insert", "commit"}
        /\ agent_software # <<>>

\* C5 as claimed: one agents row per accepted agent id, first_seen the time of
\* its first accepted report, last_seen the time of the latest, host fields and
\* ip_address the values of the latest report.
C5_Original ==
    \A a \in AgentIds :
        accepted[a].n > 0 =>
            /\ Cardinality(RowsOfAgent(a)) = 1
            /\ \A r \in RowsOfAgent(a) :
                /\ r.first_seen = accepted[a].first_at
                /\ r.last_seen = accepted[a].last_at
                /\ HostOf(r) = ReportedHost(accepted[a].last)
                /\ r.ip_address = accepted[a].last.ip_address

\* C5 amended: as claimed, except that an empty ip_address of the latest report
\* is stored as absent.
C5_AgentRow ==
    \A a \in AgentIds :
        accepted[a].n > 0 =>
            /\ Cardinality(RowsOfAgent(a)) = 1
            /\ \A r \in RowsOfAgent(a) :
                /\ r.first_seen = accepted[a].first_at
                /\ r.last_seen = accepted[a].last_at
                /\ HostOf(r) = ReportedHost(accepted[a].last)
                /\ r.ip_address = IF accepted[a].last.ip_address = <<>> THEN None
                                  ELSE accepted[a].last.ip_address

\* C5 witness: a later accepted report without os_info and ip_address follows
\* an earlier one that had them.
C5_Witness ==
    /\ accepted[A1].n >= 2
    /\ accepted[A1].first_at < accepted[A1].last_at
    /\ accepted[A1].prev.os_info = OsFull
    /\ accepted[A1].last.os_info = OsAbsent

\* C6 as claimed: every answered request carries ok or one of the error kinds.
C6_AllClassified ==
    \A t \in Threads : Done(t) => resp[t].kind \in {"ok"} \cup ErrorKinds

Spawned == 1..Len(chunks)
Running(state) == state \notin {"none", "exited", "crashed"}
LoopDone(w) == wpc[w] \in {"flush_rows", "flush_reserved", "flush_missed", "exited"}
Count(seq, x) == Cardinality({i \in 1..Len(seq) : seq[i] = x})
RowUrls(w) == [i \in 1..Len(rows[w]) |-> rows[w][i].link]
Listed(w, u) == Count(RowUrls(w), u) + Count(reserved[w], u) + Count(missed404[w], u)
Stored(vid) == \E i \in 1..Len(vulnerabilities) : vulnerabilities[i].bdu_id = vid
Aggregating == opc \in {"collect", "insert", "cleanup"} \/ (opc = "done" /\ ids # <<>>)

\* C8: once a worker is through its chunk, each id of the chunk is in exactly
\* one of rows, reserved and missed404, the three lists hold nothing else, and
\* a worker whose driver did not start has reserved the whole chunk.
C8_OneListPerId ==
    \A w \in Spawned :
        LoopDone(w) =>
            /\ \A i \in 1..Len(Chunk(w)) : Listed(w, Url(Chunk(w)[i])) = 1
            /\ Len(rows[w]) + Len(reserved[w]) + Len(missed404[w]) = Len(Chunk(w))
            /\ outcome[w] = "no_driver" =>
                   /\ reserved[w] = ChunkUrls(Chunk(w))
                   /\ rows[w] = <<>> /\ missed404[w] = <<>>

\* A worker has returned with a record, a not-found id and an id of an empty
\* page, which only the finally block reserved.
C8_Witness ==
    \E w \in Spawned :
        /\ wpc[w] = "exited"
        /\ rows[w] # <<>> /\ missed404[w] # <<>>
        /\ outcome[w] = "empty_page"

C10_AggregationAfterWorkers ==
    /\ [](Aggregating => \A w \in Slots : ~Running(wpc[w]))
    /\ [][vulnerabilities' # vulnerabilities =>
             /\ opc = "insert"
             /\ \A w \in Slots : ~Running(wpc[w])]_vars

\* A run of two workers that both returned has ended with disclosures stored.
C10_Witness ==
    /\ opc = "done"
    /\ Len(chunks) = 2
    /\ \A w \in Spawned : wpc[w] = "exited"
    /\ vulnerabilities # <<>>

(***************************************************************************)
(* Properties of the aggregation.                                          *)
(***************************************************************************)
Concatenated == CombineParts(agg_parts)
SameLink(r1, r2) == NormalizeUrl(r1.link) = NormalizeUrl(r2.link)
\* The last row of rs with the normalized link of r.
LastOfLink(rs, r) ==
    rs[CHOOSE k \in 1..Len(rs) :
          /\ SameLink(rs[k], r)
          /\ \A j \in (k + 1)..Len(rs) : ~SameLink(rs[j], r)]

RunEnded == opc \in {"done", "returned"} /\ ids # <<>>
NoFilesOf(w) == part_file[w] = <<>> /\ reserved_file[w] = <<>> /\ missed_file[w] = <<>>

TotalsIn(log) == { i \in 1..Len(log) : log[i][1] = "TOTAL" }
IncsIn(log) == { i \in 1..Len(log) : log[i][1] = "INC" }
WorkerStarted == \E w \in Slots : wpc[w] # "none"
\* The ids a worker is through with.
Finished(w) ==
    IF wpc[w] = "none" THEN 0
    ELSE IF outcome[w] = "no_driver" THEN Len(Chunk(w))
    ELSE pos[w] - 1
RECURSIVE FinishedUpTo(_)
FinishedUpTo(w) == IF w = 0 THEN 0 ELSE Finished(w) + FinishedUpTo(w - 1)

\* C13 as stated: once a worker is started the progress queue has accepted the
\* total of the run exactly once, before every increment.
C13_Original ==
    WorkerStarted =>
        /\ Cardinality(TotalsIn(progress_log)) = 1
        /\ \A i \in TotalsIn(progress_log), j \in IncsIn(progress_log) : i < j

\* C13: in a run started from the window, once a worker is started the
\* progress queue has accepted the total of the run once or twice (the
\* caller's put and the repetition by process_ids_parallel, which may be
\* dropped), each before every increment; the listener has the total when it
\* takes an increment; and a failed put of the caller starts no worker.
C13_TotalBeforeIncrements ==
    /\ WorkerStarted =>
         /\ Cardinality(TotalsIn(progress_log)) \in {1, 2}
         /\ \A i \in TotalsIn(progress_log) : progress_log[i] = Total(Len(ids))
         /\ \A i \in TotalsIn(progress_log), j \in IncsIn(progress_log) : i < j
         /\ (\E j \in IncsIn(progress_log) : j <= progress_read) => progress_total = Len(ids)
    /\ opc = "aborted" => ~WorkerStarted /\ progress_log = <<>>

\* The repetition of the total was dropped, and the listener has counted an
\* increment against the total of the caller's put.
C13_Witness ==
    /\ WorkerStarted
    /\ Cardinality(TotalsIn(progress_log)) = 1
    /\ progress_done >= 1
    /\ progress_total = Len(ids)

\* C14: the listener's counter never exceeds its total and never decreases,
\* and the queue has accepted at most one increment for each id a worker is
\* through with, whatever the outcome of the id.
C14_CounterBounded ==
    /\ [](progress_done <= progress_total)
    /\ [](Cardinality(IncsIn(progress_log)) <= FinishedUpTo(MaxWorkers))
    /\ [][progress_done' >= progress_done]_vars

\* A run of two workers, one of which could not start its driver, has ended;
\* every send was accepted and the listener has counted every id.
C14_Witness ==
    /\ opc = "returned"
    /\ Len(chunks) = 2
    /\ \E w \in Spawned : outcome[w] = "no_driver"
    /\ \E w \in Spawned : outcome[w] # "no_driver" /\ wpc[w] = "exited"
    /\ Cardinality(IncsIn(progress_log)) = Len(ids)
    /\ progress_done = Len(ids)
    /\ progress_total = Len(ids)

(***************************************************************************)
(* Properties of a run whose status queue is full.                         *)
(***************************************************************************)
ShardWritten(w) ==
    /\ part_file[w] = rows[w]
    /\ reserved_file[w] = reserved[w]
    /\ missed_file[w] = missed404[w]

\* C15: whether its status queue has room or not, a started worker that does
\* not die returns; the worker that has returned has every id of its chunk in
\* exactly one of its lists, and its files hold the lists until the cleanup.
C15_WorkerNeverWaits ==
    /\ \A w \in Slots : [](wpc[w] = "start" => <>(wpc[w] \in {"exited", "crashed"}))
    /\ [](\A w \in Spawned :
             wpc[w] = "exited" =>
                 /\ \A i \in 1..Len(Chunk(w)) : Listed(w, Url(Chunk(w)[i])) = 1
                 /\ opc \in {"spawn", "join", "collect", "insert", "cleanup"} => ShardWritten(w))

\* A worker has returned with rows, reserved and not-found ids written to its
\* files while the status queue was full from the start of the run.
C15_Witness ==
    /\ chan_full
    /\ \E w \in Spawned :
         /\ wpc[w] = "exited"
         /\ rows[w] # <<>> /\ reserved[w] # <<>> /\ missed404[w] # <<>>
         /\ ShardWritten(w)
         /\ opc = "join"

RunReachesResult == <>(opc \in {"done", "returned"})

(***************************************************************************)
(* Properties of the watcher.                                              *)
(***************************************************************************)
\* A step that is a poll's probe with the checks of its result.
Polled == apc = "probe" /\ npolls' = npolls + 1

\* The probe raised, or gave no pointer, or gave a count of 0 or less.
NoPointer(r) == r.raised \/ r.news_url \in {None, <<>>} \/ ~r.count.int \/ r.count.n <= 0

\* The poll is over, no harvest started, the checkpoint as it was.
Quiet == apc' = "sleep" /\ last_seen_news' = last_seen_news /\ requested' = requested

Warned == emitted' \in {"warn", "warn_error"}

\* The ids a poll is to harvest: count ids up to the latest one, fewer when
\* the numbers would go below 0.
ExpectedRange(l, count) ==
    LET n == Min(count, l.num + 1)
    IN  [i \in 1..n |-> VulnId(l.year, l.num - n + i, l.width)]

\* C17 as stated: a poll whose probe raises, gives no pointer or gives a
\* count of 0 or less, or whose pointer is the content of the checkpoint,
\* starts no harvest and leaves the checkpoint as it is, with a warning in
\* the first three cases.
C17_Original ==
    [][Polled /\ (NoPointer(news') \/ news'.news_url = last_seen_news)
          => Quiet /\ (NoPointer(news') => Warned)]_vars

\* C17: a poll whose probe raises, gives no pointer or gives a count of 0 or
\* less, or whose pointer is the content of the checkpoint without the
\* whitespace around it, starts no harvest and leaves the checkpoint as it
\* is, with a warning in the first three cases; a harvest is invoked only
\* after a probe that is none of these cases.
C17_QuietPoll ==
    /\ [][Polled /\ ( \/ NoPointer(news')
                      \/ (last_seen_news # NoFile /\ news'.news_url = Strip(last_seen_news)) )
             => Quiet /\ (NoPointer(news') => Warned)]_vars
    /\ [][requested' # requested => apc = "lookup"]_vars

\* A second poll found the pointer of the checkpoint and reported no news.
C17_Witness ==
    /\ apc = "sleep"
    /\ emitted = "no_news"
    /\ npolls = 2
    /\ last_seen_news # NoFile
    /\ news.news_url = Strip(last_seen_news)
    /\ Len(requested) = 1

C20_CheckpointWhole ==
    apc = "stopped" =>
        \/ last_seen_news = NoFile
        \/ \E r \in ProbeResults : Truthy(r.news_url) /\ last_seen_news = r.news_url

\* The part of C20 that holds: an interrupt in the sleep ends the loop with
\* the checkpoint as it was, and the stopped loop takes no step.
SleepInterruptEnds ==
    /\ [][apc = "sleep" => last_seen_news' = last_seen_news /\ requested' = requested]_vars
    /\ [][apc # "stopped"]_vars

(***************************************************************************)
(* Properties of ids.py.                                                   *)
(***************************************************************************)
\* The length of num_str: its digits and the line feed after them.
NumLen(id) == id.width + (IF id.lf THEN 1 ELSE 0)

IterIdsApplied ==
    /\ id_fn = "iter_ids"
    /\ arg_start.year = arg_end.year
    /\ arg_end.num >= arg_start.num

\* The ids returned are those of the year with the numbers from start to end
\* in this order, each of the given width.
IdsInOrder(out, width) ==
    /\ Len(out) = arg_end.num - arg_start.num + 1
    /\ \A i \in 1..Len(out) :
         /\ out[i].year = arg_start.year
         /\ out[i].num = arg_start.num + i - 1
         /\ out[i].width = width
         /\ ~out[i].lf

C22_RangeError ==
    id_fn = "iter_ids" =>
        /\ ret_iter.raised <=>
               (arg_start.year # arg_end.year \/ arg_end.num < arg_start.num)
        /\ ret_iter.raised => ret_iter.value = <<>>
        /\ (ret_iter.raised /\ opc # "idle") =>
               /\ opc \in {"rejected", "returned"}
               /\ chunks = <<>>
               /\ \A w \in Slots : wpc[w] = "none"
               /\ vulnerabilities = <<>>

\* A run requested from "2024-2" to "2023-2" has returned.
C22_Witness ==
    /\ id_fn = "iter_ids"
    /\ arg_start = IdText(2024, 4, 2, 1, FALSE)
    /\ arg_end = IdText(2023, 4, 2, 1, FALSE)
    /\ ret_iter.raised
    /\ opc = "returned"

(***************************************************************************)
(* Properties of reporting.py.                                             *)
(***************************************************************************)
TokensSimilarityApplied == cor_fn = "tokens_similarity"
CompareVersionsApplied == cor_fn = "compare_versions"
VersionIsVulnerableApplied == cor_fn = "version_is_vulnerable"
MatchVulnsForAgentApplied == cor_fn = "match_vulns_for_agent"

\* C27: tokens_similarity(a, b) equals tokens_similarity(b, a) and lies
\* between 0 and 1; it is 0 when either list is empty, and it is 1 exactly
\* when the two sets of tokens are equal and not empty.
C27_TokensSimilarity ==
    TokensSimilarityApplied =>
        LET a == cor_args.a
            b == cor_args.b
            ab == cor_ret.ab
            ba == cor_ret.ba
        IN  /\ ab.den > 0 /\ ba.den > 0
            /\ ab.num * ba.den = ba.num * ab.den
            /\ 0 <= ab.num /\ ab.num <= ab.den
            /\ (a = <<>> \/ b = <<>>) => ab.num = 0
            /\ (ab.num = ab.den) <=> (ToSet(a) = ToSet(b) /\ ToSet(a) # {})

\* Two lists that differ and hold the same tokens have similarity 1.
C27_Witness ==
    /\ TokensSimilarityApplied
    /\ cor_args.a # cor_args.b
    /\ Len(cor_args.a) # Len(cor_args.b)
    /\ ToSet(cor_args.a) = ToSet(cor_args.b)
    /\ cor_ret.ab.num = cor_ret.ab.den

\* C28: compare_versions orders the tuples of integers up to zeros on the
\* right: compare(a, b) = -compare(b, a); compare(a, b) <= 0 and
\* compare(b, c) <= 0 give compare(a, c) <= 0; compare(a, b) = 0 exactly
\* when a and b are equal once padded with zeros; compare((1,2),(1,2,0)) = 0.
C28_CompareVersions ==
    CompareVersionsApplied =>
        LET a == cor_args.a
            b == cor_args.b
            n == Max(Len(a), Len(b))
        IN  /\ cor_ret.ab \in {-1, 0, 1}
            /\ cor_ret.ab = -cor_ret.ba
            /\ (cor_ret.ab <= 0 /\ cor_ret.bc <= 0) => cor_ret.ac <= 0
            /\ (cor_ret.ab = 0) <=>
                 (\A i \in 1..n : (IF i <= Len(a) THEN a[i] ELSE 0) = (IF i <= Len(b) THEN b[i] ELSE 0))
            /\ (a = <<1, 2>> /\ b = <<1, 2, 0>>) => cor_ret.ab = 0

\* (1,2) and (1,2,0) are compared and come out equal.
C28_Witness ==
    /\ CompareVersionsApplied
    /\ cor_args.a = <<1, 2>>
    /\ cor_args.b = <<1, 2, 0>>
    /\ cor_ret.ab = 0

\* The constraint "op v1" holds of the installed tuple.
Holds(iv, cons) ==
    LET n == Max(Len(iv), Len(cons.v1))
        x == PadZeros(iv, n)
        y == PadZeros(cons.v1, n)
    IN  CASE cons.op = "<" -> TupleLess(x, y)
          [] cons.op = "<=" -> ~TupleLess(y, x)
          [] cons.op = "==" -> x = y
          [] cons.op = ">" -> TupleLess(y, x)
          [] cons.op = ">=" -> ~TupleLess(x, y)

\* C24: the verdict is unknown exactly when the installed version is missing
\* or has no digit group, or no constraint is extracted from the product
\* text; otherwise it is match when the installed version satisfies at least
\* one extracted constraint and mismatch when it satisfies none.  With the
\* product text 'before 7.3.1', 7.2.0 gives match and 7.5.0 gives mismatch.
C24_Verdict ==
    VersionIsVulnerableApplied =>
        LET installed == cor_args.installed_version
            product == cor_args.product_text
            constraints == ExtractVersionConstraints(product)
            iv == ParseVersion(installed)
            undecided == \/ ~GivenText(installed)
                         \/ DigitGroups(installed) = <<>>
                         \/ constraints = <<>>
        IN  /\ (cor_ret = "unknown") <=> undecided
            /\ ~undecided =>
                 (cor_ret = IF \E i \in 1..Len(constraints) : Holds(iv, constraints[i])
                            THEN "match" ELSE "mismatch")
            /\ (product = <<Word("before"), V731>> /\ installed = <<V720>>) => cor_ret = "match"
            /\ (product = <<Word("before"), V731>> /\ installed = <<V750>>) => cor_ret = "mismatch"

\* A text with two constraints, one satisfied and one not, gives match.
C24_Witness ==
    /\ VersionIsVulnerableApplied
    /\ Len(ExtractVersionConstraints(cor_args.product_text)) = 2
    /\ \E i, j \in 1..2 :
         /\ Holds(ParseVersion(cor_args.installed_version), ExtractVersionConstraints(cor_args.product_text)[i])
         /\ ~Holds(ParseVersion(cor_args.installed_version), ExtractVersionConstraints(cor_args.product_text)[j])
    /\ cor_ret = "match"

\* The software rows of the agent the correlation was called for, and the
\* number of entries of a row under the key of a vulnerability.
AgentRows ==
    { cor_args.software_rows[i] : i \in { j \in 1..Len(cor_args.software_rows) :
                                            cor_args.software_rows[j].agent_id = cor_args.agent_id } }
VulnsGiven == { cor_args.vulns[i] : i \in 1..Len(cor_args.vulns) }
EntriesOf(sw, v) ==
    IF v.id \in DOMAIN cor_ret
    THEN Cardinality({ k \in 1..Len(cor_ret[v.id].software) : cor_ret[v.id].software[k].row = sw })
    ELSE 0

\* The tokens the name is compared with, and the name test stated on sets.
ProductTokens(v) ==
    IF ToSet(NormalizeText(StripText(v.product))) # {}
    THEN ToSet(NormalizeText(StripText(v.product)))
    ELSE ToSet(NormalizeText(TextOr(v.title, <<>>)))
NameTokens(sw) == ToSet(NormalizeText(StripText(sw.name)))
HalfShared(A, B) == 2 * Cardinality(A \cap B) >= Max(Cardinality(A), Cardinality(B))
Verdict(sw, v) == VersionIsVulnerable(sw.version, StripText(v.product))

\* C26: a pair passes the name test exactly when the product of the
\* disclosure (or, when the product yields no token, its title) yields at
\* least one token and the similarity of the tokens is at least 0.5; a
\* similarity of exactly 0.5, {acrobat, reader} against {adobe, acrobat,
\* reader, dc}, passes.
C26_NameTest ==
    MatchVulnsForAgentApplied =>
        \A sw \in AgentRows, v \in VulnsGiven :
            LET passes == ProductTokens(v) # {} /\ HalfShared(NameTokens(sw), ProductTokens(v))
            IN  /\ EntriesOf(sw, v) > 0 => passes
                /\ (VendorTest(sw, v) /\ Verdict(sw, v) # "mismatch") => (EntriesOf(sw, v) > 0 <=> passes)
                /\ (NameTokens(sw) = {"acrobat", "reader"}
                      /\ ProductTokens(v) = {"adobe", "acrobat", "reader", "dc"}) => passes

\* A pair of similarity exactly 0.5 is kept, and a pair that only the title
\* gives tokens for is kept.
C26_Witness ==
    /\ MatchVulnsForAgentApplied
    /\ \E sw \in AgentRows, v \in VulnsGiven :
         /\ NameTokens(sw) = {"acrobat", "reader"}
         /\ ProductTokens(v) = {"adobe", "acrobat", "reader", "dc"}
         /\ EntriesOf(sw, v) = 1
    /\ \E sw \in AgentRows, v \in VulnsGiven :
         /\ NormalizeText(StripText(v.product)) = <<>>
         /\ EntriesOf(sw, v) = 1

\* C25: the result of correlating an agent holds no software entry of
\* verdict mismatch; it holds every pair of a software row of the agent and
\* a disclosure that passed the name and the vendor test with verdict match
\* or unknown, exactly once, under the key of the disclosure; every key has
\* at least one software entry, and only rows of the agent appear.
C25_Correlation ==
    MatchVulnsForAgentApplied =>
        /\ \A vid \in DOMAIN cor_ret :
             /\ Len(cor_ret[vid].software) >= 1
             /\ cor_ret[vid].vuln \in VulnsGiven
             /\ cor_ret[vid].vuln.id = vid
             /\ \A k \in 1..Len(cor_ret[vid].software) :
                  /\ cor_ret[vid].software[k].version_check # "mismatch"
                  /\ cor_ret[vid].software[k].row \in AgentRows
                  /\ cor_ret[vid].software[k].version_check =
                       Verdict(cor_ret[vid].software[k].row, cor_ret[vid].vuln)
        /\ \A sw \in AgentRows, v \in VulnsGiven :
             (NameTest(sw, v) /\ VendorTest(sw, v) /\ Verdict(sw, v) \in {"match", "unknown"})
                 => EntriesOf(sw, v) = 1

\* A row of the agent is kept under one disclosure and left out, for a
\* mismatch, under another, while a row of another agent that passes the
\* tests is in the table.
C25_Witness ==
    /\ MatchVulnsForAgentApplied
    /\ \E sw \in AgentRows, v, w \in VulnsGiven :
         /\ NameTest(sw, v) /\ VendorTest(sw, v) /\ Verdict(sw, v) = "mismatch"
         /\ EntriesOf(sw, v) = 0
         /\ EntriesOf(sw, w) = 1
    /\ \E i \in 1..Len(cor_args.software_rows), v \in VulnsGiven :
         /\ cor_args.software_rows[i].agent_id # cor_args.agent_id
         /\ NameTest(cor_args.software_rows[i], v)
         /\ VendorTest(cor_args.software_rows[i], v)

\* C35: the vendor test is applied to a pair only when both the vendor of
\* the disclosure and the publisher of the software are not empty; then the
\* pair is discarded exactly when the token similarity of vendor and
\* publisher is below 0.5; a pair in which either is missing is never
\* discarded on vendor grounds.
C35_VendorTest ==
    MatchVulnsForAgentApplied =>
        \A sw \in AgentRows, v \in VulnsGiven :
            LET both == StripText(v.vendor) # <<>> /\ StripText(sw.publisher) # <<>>
                below == ~HalfShared(ToSet(NormalizeText(StripText(sw.publisher))),
                                     ToSet(NormalizeText(StripText(v.vendor))))
            IN  (StripText(sw.name) # <<>> /\ NameTest(sw, v) /\ Verdict(sw, v) # "mismatch") =>
                    (EntriesOf(sw, v) = 0 <=> (both /\ below))

\* A pair is discarded for its vendor, a pair whose publisher is missing and
\* a pair whose vendor is blank are kept.
C35_Witness ==
    /\ MatchVulnsForAgentApplied
    /\ \E sw \in AgentRows, v, w \in VulnsGiven :
         /\ StripText(sw.publisher) # <<>> /\ StripText(v.vendor) # <<>>
         /\ NameTest(sw, v) /\ Verdict(sw, v) # "mismatch"
         /\ EntriesOf(sw, v) = 0
         /\ w.vendor = <<Blank>>
         /\ EntriesOf(sw, w) = 1
    /\ \E sw \in AgentRows, v \in VulnsGiven :
         /\ sw.publisher = NoText /\ StripText(v.vendor) # <<>>
         /\ EntriesOf(sw, v) = 1

ExtractApplied == cor_fn = "extract_version_constraints"

\* The version literals of the product text that a rule other than the
\* fallback matches, and the operator of the first rule that matches one.
Rules == <<"before", "through", "operator", "earlier">>
RuleMatches(text, k, span) == \E i \in 1..Len(text) : VersionAt(text, Rules[k], i) = span
Spans(text) == { span \in 1..Len(text) : \E k \in 1..Len(Rules) : RuleMatches(text, k, span) }
FirstOp(text, span) ==
    LET k == CHOOSE j \in 1..Len(Rules) :
                 RuleMatches(text, j, span) /\ \A h \in 1..(j - 1) : ~RuleMatches(text, h, span)
        i == CHOOSE j \in 1..Len(text) : VersionAt(text, Rules[k], j) = span
    IN  OpOf(text, Rules[k], i)

\* C34: the extraction gives each version span of the product text at most
\* one constraint, that of the first rule matching it in the order before /
\* prior to, through, operator, and earlier; distinct spans accumulate; an
\* == constraint is produced only when no other rule produced a constraint.
C34_FirstRuleWins ==
    ExtractApplied =>
        LET text == TextOr(cor_args.product, <<>>) IN
        /\ Spans(text) # {} =>
              /\ Len(cor_ret) = Cardinality(Spans(text))
              /\ \A span \in Spans(text) :
                    \E i \in 1..Len(cor_ret) :
                        cor_ret[i] = VersionConstraint(FirstOp(text, span), ParseVersion(<<text[span]>>))
              /\ \A i \in 1..Len(cor_ret) : cor_ret[i].op # "=="
        /\ Spans(text) = {} => (Len(cor_ret) <= 1 /\ \A i \in 1..Len(cor_ret) : cor_ret[i].op = "==")

\* What holds of the extraction: every span a rule matches gives the
\* constraint of each rule that matches it, and == comes only as fallback.
ExtractionAccumulates ==
    ExtractApplied =>
        LET text == TextOr(cor_args.product, <<>>) IN
        /\ \A span \in Spans(text) :
              \E i \in 1..Len(cor_ret) :
                  cor_ret[i] = VersionConstraint(FirstOp(text, span), ParseVersion(<<text[span]>>))
        /\ Len(cor_ret) >= Cardinality(Spans(text))
        /\ (\E i \in 1..Len(cor_ret) : cor_ret[i].op = "==") => (Spans(text) = {} /\ Len(cor_ret) = 1)

\* One span with the constraints of two rules.
TwoRulesOneSpan ==
    ExtractApplied /\ Cardinality(Spans(TextOr(cor_args.product, <<>>))) = 1 /\ Len(cor_ret) = 2

(***************************************************************************)
(* Properties of the sealed requests.                                      *)
(***************************************************************************)
SealedBy(t) == cor_fn = "agent_report" /\ t \in DOMAIN cor_args
TagBytes == (NonceLen + 1)..(NonceLen + TagLen)

\* C29: a payload sealed for the server (AES-GCM under a fresh session key,
\* laid out nonce(12) || tag(16) || ciphertext, the session key wrapped for
\* the server's public key) is decrypted by the service to exactly the
\* original JSON; with any byte of the tag changed the request is answered
\* decrypt_failed and writes nothing.
C29_RoundTrip ==
    \A t \in Threads :
        SealedBy(t) =>
            /\ cor_args[t].changed = 0 =>
                 /\ cor_ret[t].ok
                 /\ cor_ret[t].plain = cor_args[t].plain
                 /\ envl[t].keyLoads => resp[t].kind # "decrypt_failed"
            /\ cor_args[t].changed \in TagBytes =>
                 /\ ~cor_ret[t].ok
                 /\ envl[t].keyLoads => (Done(t) /\ resp[t].kind = "decrypt_failed" /\ ~wrote[t])

\* One thread answered decrypt_failed to a message whose last tag byte was
\* changed while the other stored the payload of an unchanged message.
C29_Witness ==
    \E t, u \in Threads :
        /\ SealedBy(t) /\ SealedBy(u)
        /\ cor_args[t].changed = NonceLen + TagLen
        /\ envl[t].keyLoads /\ resp[t].kind = "decrypt_failed"
        /\ cor_args[u].changed = 0
        /\ cor_ret[u].plain = GoodPlain
        /\ resp[u].kind = "ok" /\ wrote[u]

(***************************************************************************)
(* Properties of the migration.                                            *)
(***************************************************************************)
\* The row of the target that an earlier row is mapped to: the columns of
\* the same name keep their values, published and created_at are the
\* publication_date and created_date when these are missing, every other
\* column is NULL.
Mapped(row, cols) ==
    [c \in ToSet(DESIRED_COLUMNS) |->
        IF c \in ToSet(cols) THEN row[c]
        ELSE IF c = "publication_date" /\ "published" \in ToSet(cols) THEN row["published"]
        ELSE IF c = "created_date" /\ "created_at" \in ToSet(cols) THEN row["created_at"]
        ELSE Null]

\* The vulnerabilities table has the target columns and one row for each
\* earlier row, up to the id a row without id is given.
HoldsEarlierRows ==
    /\ mig_new.exists
    /\ mig_new.cols = DESIRED_COLUMNS
    /\ Len(mig_new.rows) = Len(mig_before.rows)
    /\ \A r \in 1..Len(mig_before.rows) :
         \A c \in ToSet(DESIRED_COLUMNS) :
            mig_new.rows[r][c] = Mapped(mig_before.rows[r], mig_before.cols)[c]
            \/ (c = "id" /\ "id" \notin ToSet(mig_before.cols))

\* The vulnerabilities table is as the first init_db found it, or there
\* was no row to lose.
Untouched == mig_new = mig_before \/ mig_before.rows = <<>>

\* init_db raised and the rows are in vulnerabilities_old only.
RaisedWithoutRows ==
    mig_pc = "raised" /\ mig_before.rows # <<>> /\ mig_new.rows = <<>> /\ mig_old = mig_before

\* C30: for every earlier column set, when init_db has returned the
\* vulnerabilities table has the target columns and one row for each row
\* that existed before, mapped columns keeping their values and missing
\* ones NULL; when the migration failed midway (init_db raised, or the
\* process ended) the table still holds its earlier rows, migrated or not.
C30_MigrationKeepsRows ==
    /\ mig_pc = "returned" => HoldsEarlierRows
    /\ mig_pc \in {"raised", "killed"} => (Untouched \/ HoldsEarlierRows)

\* What holds: a call of init_db that returns after migrating leaves the
\* target columns and the mapped rows.
MigrationReturned ==
    (mig_pc = "returned" /\ mig_calls = 1) => HoldsEarlierRows /\ ~mig_old.exists

MigrationReturnedWitness ==
    /\ mig_pc = "returned" /\ mig_calls = 1
    /\ "published" \in ToSet(mig_before.cols)
    /\ Len(mig_new.rows) = MaxOldRows

(***************************************************************************)
(* Properties of _chunkify.                                                *)
(***************************************************************************)
ChunkifyApplied == cor_fn = "_chunkify"

RECURSIVE Concat(_)
Concat(seqs) == IF seqs = <<>> THEN <<>> ELSE Head(seqs) \o Concat(Tail(seqs))

\* ceil(len / n): the least c with c * n >= len.
Ceil(len, n) == CHOOSE c \in 0..len : c * n >= len /\ (c = 0 \/ (c - 1) * n < len)

\* C32: for a non-empty id list and a concurrency of 1 or more, chunking
\* yields at most concurrency chunks, none empty, each of size
\* ceil(len / concurrency) except possibly a shorter last one, and the
\* chunks concatenated in order are the id list; an empty list yields no
\* chunk.
C32_Chunks ==
    ChunkifyApplied =>
        LET items == cor_args.items
            n == cor_args.n_chunks
            size == Ceil(Len(items), n)
        IN  /\ items = <<>> => cor_ret = <<>>
            /\ items # <<>> =>
                 /\ Len(cor_ret) >= 1 /\ Len(cor_ret) <= n
                 /\ \A k \in 1..Len(cor_ret) : cor_ret[k] # <<>>
                 /\ \A k \in 1..(Len(cor_ret) - 1) : Len(cor_ret[k]) = size
                 /\ Len(cor_ret[Len(cor_ret)]) <= size
            /\ Concat(cor_ret) = items

\* Fewer chunks than the concurrency, the last one shorter than the others.
C32_Witness ==
    /\ ChunkifyApplied
    /\ Len(cor_args.items) > cor_args.n_chunks
    /\ Len(cor_ret) < cor_args.n_chunks
    /\ Len(cor_ret[Len(cor_ret)]) < Len(cor_ret[1])

(***************************************************************************)
(* Properties of the fetch attempts.                                       *)
(***************************************************************************)
\* A step of worker w that stays at the fetch of the same id: a retry.
Retried(w) == wpc[w] = "fetch" /\ wpc'[w] = "fetch" /\ pos'[w] = pos[w] /\ attempt'[w] # attempt[w]
RecordedNotFound(w) == missed404'[w] # missed404[w]
RecordedReserved(w) == wpc[w] = "fetch" /\ reserved'[w] # reserved[w]

\* C33: for one id a worker attempts the fetch at most 3 times: a not-found
\* response ends the attempts at once and records the id as not-found
\* without a retry; a transient failure is retried, and when the last
\* attempt fails too the id is recorded as reserved and the worker goes on
\* to the next id of its chunk.
C33_FetchAttempts ==
    [][\A w \in Slots :
          /\ attempt'[w] <= 2
          /\ Retried(w) => (attempt'[w] = attempt[w] + 1
                            /\ reserved'[w] = reserved[w] /\ missed404'[w] = missed404[w])
          /\ RecordedNotFound(w) =>
                /\ wpc[w] = "fetch" /\ wpc'[w] = "finally"
                /\ missed404'[w] = Append(missed404[w], Url(CurrentId(w)))
                /\ reserved'[w] = reserved[w]
                /\ attempt'[w] = attempt[w]
          /\ RecordedReserved(w) =>
                /\ attempt[w] = 2
                /\ wpc'[w] = "finally"
                /\ reserved'[w] = Append(reserved[w], Url(CurrentId(w)))
                /\ missed404'[w] = missed404[w]
          /\ (wpc[w] = "finally" /\ wpc'[w] \in {"fetch", "flush_rows"}) =>
                /\ pos'[w] = pos[w] + 1
                /\ attempt'[w] = 0
                /\ (wpc'[w] = "fetch" <=> pos[w] < Len(Chunk(w)))
      ]_vars

\* A worker is at the second id of its chunk after three failed attempts
\* at the first, and another id was recorded not-found after one failure.
C33_Witness ==
    /\ \E w \in Slots :
         /\ wpc[w] = "fetch" /\ pos[w] = 2 /\ outcome[w] = "load_error"
         /\ reserved[w] = <<Url(Chunk(w)[1])>>
    /\ \E w \in Slots :
         /\ wpc[w] = "finally" /\ outcome[w] = "not_found" /\ attempt[w] = 1
         /\ missed404[w] = <<Url(CurrentId(w))>>

(***************************************************************************)
(* Properties of the order of the checks of agent_report.                  *)
(***************************************************************************)
\* The request of thread t was answered before upsert_agent_inventory was called.
AnsweredByChecks(t) == Done(t) /\ resp[t].at = "checks"

\* The body is JSON; it holds a non-empty enc_key and a non-empty enc_data.
BodyIsJson(t) == envl[t].shape # "notjson"
BothPresent(t) ==
    /\ envl[t].shape = "object"
    /\ envl[t].ek \notin {"absent", "empty"}
    /\ envl[t].ed \notin {"absent", "empty"}

\* The response kind the order of the checks allows for the request of thread t.
KindInOrder(t) ==
    LET k == resp[t].kind IN
    /\ ~BodyIsJson(t) => k = "bad_json"
    /\ BodyIsJson(t) /\ ~BothPresent(t) => k = "enc_key_or_enc_data_missing"
    /\ BodyIsJson(t) /\ BothPresent(t) /\ ~envl[t].keyLoads => k = "private_key_error"
    /\ BodyIsJson(t) /\ BothPresent(t) /\ envl[t].keyLoads =>
           k \in {"decrypt_failed", "agent_id_missing", "db_error"}

\* The Store write is attempted only after every earlier check passed.
WriteAfterChecks(t) ==
    pc[t] \notin {"idle", "done"} =>
        /\ BodyIsJson(t) /\ BothPresent(t) /\ envl[t].keyLoads
        /\ Truthy(payload[t].agent_id)

\* C37 as claimed: a request answered by the checks carries the kind of the
\* first check that fails, in the order JSON body, enc_key and enc_data,
\* private key, decryption, agent_id, Store write; and the Store write is
\* attempted only when all earlier checks passed.
C37_FirstFailingCheck ==
    \A t \in Threads :
        /\ AnsweredByChecks(t) => KindInOrder(t)
        /\ WriteAfterChecks(t)

\* What holds: the order of the checks, for every request that is answered with
\* a kind at all.
ChecksInOrder ==
    \A t \in Threads :
        /\ AnsweredByChecks(t) /\ resp[t].kind # "unhandled" => KindInOrder(t)
        /\ WriteAfterChecks(t)

\* A request whose body is JSON without the two fields is answered with no kind.
UnclassifiedBody ==
    \E t \in Threads :
        /\ AnsweredByChecks(t) /\ BodyIsJson(t) /\ ~BothPresent(t)
        /\ resp[t].kind = "unhandled"

(***************************************************************************)
(* Properties of the watcher's errors.                                     *)
(***************************************************************************)
\* A step of a poll in which the probe, the lookup, the harvest or the write of
\* the checkpoint raised an error that is no interrupt.
LookupRaised == apc = "lookup" /\ latest'.kind # "id" /\ apc' # "stopped"
HarvestRaised == apc = "harvest" /\ harvest_result' = "none" /\ apc' # "stopped"
PollError ==
    \/ Polled /\ news'.raised
    \/ LookupRaised
    \/ HarvestRaised
    \/ apc = "write" /\ apc' \notin {"writing", "stopped"}
    \/ apc = "writing" /\ last_seen_news' # news.news_url /\ apc' # "stopped"

\* C38: an error raised in a poll (probe, lookup, harvest, write of the
\* checkpoint) does not end the loop: a warning is emitted and the watcher
\* sleeps; a sleep ends in the next poll only after the configured hours, one
\* hour when fewer are configured, or in the stop of the loop; and the loop is
\* ended by an interrupt only.
C38_ErrorsKeepLoop ==
    /\ [][PollError => apc' = "sleep" /\ emitted' = "warn_error"]_vars
    /\ [][apc = "sleep" => apc' \in {"sleep", "probe", "stopped"}]_vars
    /\ [][apc = "sleep" /\ apc' = "probe"
             => slept >= 1 /\ slept = (IF interval_hours >= 1 THEN interval_hours ELSE 1)]_vars
    /\ [][apc' = "stopped" /\ apc # "stopped"
             => emitted' = "stopped" /\ (InterruptBody \/ InterruptSleep)]_vars

\* The harvest of the first poll raised, the watcher warned, slept the one hour
\* of an interval of 0 and is at its next poll.
C38_Witness ==
    /\ apc = "probe"
    /\ npolls = 1
    /\ emitted = "warn_error"
    /\ latest.kind = "id" /\ harvest_result = "none"
    /\ interval_hours = 0
    /\ slept = 0

\* C39: a lookup or a harvest that raises leaves the checkpoint as it is and
\* ends the poll; and the next poll, when its probe gives the same pointer
\* with a count of 1 or more, goes on to the lookup and the harvest again.
C39_RaiseKeepsCheckpoint ==
    /\ [][LookupRaised \/ HarvestRaised
             => last_seen_news' = last_seen_news /\ apc' = "sleep"]_vars
    /\ [][Polled /\ emitted = "warn_error" /\ ~news.raised /\ harvest_result = "none"
                 /\ ~NoPointer(news') /\ news'.news_url = news.news_url
             => apc' = "lookup"]_vars

\* The harvest of the first poll raised; the second poll saw the same pointer
\* and invoked the harvest over the same range, the checkpoint still missing.
C39_Witness ==
    /\ apc = "harvest"
    /\ npolls = 2
    /\ emitted = "range"
    /\ Len(requested) = 2 /\ requested[1] = requested[2] /\ requested[1] # <<>>
    /\ last_seen_news = NoFile

(***************************************************************************)
(* Properties of the disclosure records in the Store.                      *)
(***************************************************************************)
\* The step is a call of insert_vulnerabilities.
Inserted == cor_fn' = "insert_vulnerabilities" /\ cor_args'.n = Inserts + 1

\* The rows the step added to the table.
Added == SubSeq(vulnerabilities', Len(vulnerabilities) + 1, Len(vulnerabilities'))

AgentRowsIn(tbl, a) == { r \in tbl : r.agent_id = a }
SoftwareRowsIn(tbl, a) == SelectSeq(tbl, LAMBDA r : r.agent_id = a)

\* upsert_agent_inventory for payload p at time now, as one transaction on db.
ReportApplied(db, p, now) ==
    LET a == Args(p)
        built == BuildRows(a.agent_id, a.software_list, now)
    IN  Db(UpsertAgent(db.agents, a, now),
           DeleteSoftware(db.agent_software, a.agent_id) \o built.rows)

\* The same rows of every agent in two stores.
SameRows(d, e) ==
    /\ d.agents = e.agents
    /\ \A c \in AgentIds :
           SoftwareRowsIn(d.agent_software, c) = SoftwareRowsIn(e.agent_software, c)

IdsOfRun(r) == { RunIds(r)[i] : i \in 1..Len(RunIds(r)) }
Collected(r) == runs[r].pc \in {"insert", "cleanup", "done"}
TimesStored(vid) == Cardinality({ i \in 1..Len(vulnerabilities) : vulnerabilities[i].bdu_id = vid })

\* C36 as claimed: with the two runs at the same time, the final table of each
\* run holds only records of its own workers; when both runs have ended with
\* their inserts committed, every id of either run is stored exactly once; and
\* a part file is removed only by the cleanup of the run whose process wrote it.
C36_RunsIsolated ==
    /\ [](\A r \in Runs :
             Collected(r) =>
                 \A i \in 1..Len(runs[r].final) : runs[r].final[i].bdu_id \in IdsOfRun(r))
    /\ []((\A r \in Runs : runs[r].pc = "done" /\ runs[r].inserted = "ok") =>
             \A r \in Runs : \A vid \in IdsOfRun(r) : TimesStored(vid) = 1)
    /\ [][\A p \in Pids :
             shard_dir[p] # <<>> /\ shard_dir'[p] = <<>> => runs[p[1]].pc = "cleanup"]_vars

\* What holds: a run that has the directory to itself (the other run has not
\* begun) collects the records of its own workers only, and when its insert
\* is committed each of its ids is stored exactly once.
RunAloneInsertsOwn ==
    \A r \in Runs :
        (\A q \in Runs \ {r} : runs[q].pc = "idle") =>
            /\ Collected(r) =>
                   \A i \in 1..Len(runs[r].final) : runs[r].final[i].bdu_id \in IdsOfRun(r)
            /\ runs[r].inserted = "ok" => \A vid \in IdsOfRun(r) : TimesStored(vid) = 1

\* The watcher's run collected a part file of the other run's process.
ReadsOtherShard ==
    /\ Collected("watcher")
    /\ \E i \in 1..Len(runs["watcher"].final) :
           runs["watcher"].final[i].bdu_id \in IdsOfRun("ondemand")

\* Both runs ended with their inserts committed, and an id of one of them is
\* stored twice.
StoredTwice ==
    /\ \A r \in Runs : runs[r].pc = "done" /\ runs[r].inserted = "ok"
    /\ \E r \in Runs : \E vid \in IdsOfRun(r) : TimesStored(vid) = 2

\* Both runs ended with no insert raised, and an id of one of them is not
\* stored: its part file was removed by the other run's cleanup before it was
\* collected.
RecordLost ==
    /\ \A r \in Runs : runs[r].pc = "done" /\ runs[r].inserted # "raised"
    /\ \E r \in Runs : \E vid \in IdsOfRun(r) : TimesStored(vid) = 0

====
